---- MODULE Spec2Model ----
(***************************************************************************)
(* Model of the multi-agent orchestration layer of the clinical MAS        *)
(* planner: run_planner, run_specialist(s), run_aggregator and run_case,   *)
(* the debate baselines, the batch evaluation loops and the CLI commands.  *)
(* Every model call is one step; the text a model returns is abstracted to *)
(* what the parsing code can tell apart.  Probabilities and relevance      *)
(* scores are in hundredths (1.0 = 100).                                   *)
(***************************************************************************)
EXTENDS Integers, Sequences, FiniteSets, TLC

\* ------------------------------------------------------------------ bounds
MaxSelLen == 2
MaxScored == 1
MaxDiff == 2
MaxDebateRounds == 3
MaxSeqRounds == 3
MaxOver == 2
MaxWideDiff == 4
MaxConsults == 1
MaxPlanSel == 2
MaxPlanScored == 3
MaxErrors == 1

\* --------------------------------------------------------- program constants
MaxSelected == 5
MaxDifferential == 3
ProbTolerance == 101

None == "None"

\* ------------------------------------------------------------ python helpers
Min(a, b) == IF a < b THEN a ELSE b

Max(a, b) == IF a > b THEN a ELSE b

\* s[:n] with Python's treatment of a negative n
PySliceTo(s, n) ==
    IF n >= 0 THEN SubSeq(s, 1, Min(n, Len(s)))
    ELSE SubSeq(s, 1, Max(Len(s) + n, 0))

SeqUpTo(S, n) == UNION {[1..k -> S] : k \in 0..n}

Range(s) == {s[k] : k \in 1..Len(s)}

\* ------------------------------------------------------------------ catalog
CatalogIds == {"cardiology", "neurology"}

HallucinatedIds == {"heart_doctor"}

AllIds == CatalogIds \cup HallucinatedIds

get_specialty_ids == CatalogIds

get_specialty_by_id(sid) == IF sid \in CatalogIds THEN sid ELSE None

\* returns the list of invalid ids; is_valid is (invalid = <<>>)
validate_specialty_ids(ids) == SelectSeq(ids, LAMBDA sid : sid \notin get_specialty_ids)


\* -------------------------------------------------------------- exceptions
\* an except clause that does not see pydantic's ValidationError as a ValueError
IsValueError_Narrow(e) == e \in {"ValueError", "JSONDecodeError"}

IsValueError(e) == e \in {"ValueError", "JSONDecodeError", "ValidationError"}

\* ------------------------------------------------------------ model backend
\* What a model call can produce: a transport failure (the client raises
\* RuntimeError), text with no JSON in it, JSON that is not an object, or a
\* JSON object.
Relevances == {30, 80, 120}

ScoredEntries == [specialty_id : AllIds, relevance : Relevances]

PlannerResponses ==
    [kind : {"transport", "no_json", "non_object"},
     selected_specialties : {<<>>}, scored_catalog : {<<>>}]
    \cup
    [kind : {"object"},
     selected_specialties : SeqUpTo(AllIds, MaxSelLen),
     scored_catalog : SeqUpTo(ScoredEntries, MaxScored)]

\* _extract_json(response.content)
extract_json(r) ==
    CASE r.kind = "no_json" -> "JSONDecodeError"
      [] OTHER -> "ok"

\* PlannerResult(**result_dict): "ok" or the exception raised
PlannerResultSchema(r) ==
    IF r.kind = "non_object" THEN "TypeError"
    ELSE IF Len(r.selected_specialties) < 1
            \/ Len(r.selected_specialties) > MaxSelected
            \/ \E k \in 1..Len(r.scored_catalog) :
                   r.scored_catalog[k].relevance < 0 \/ r.scored_catalog[k].relevance > 100
         THEN "ValidationError"
         ELSE "ok"

\* the try block of run_planner / _retry_planner_with_correction
ParsePlanner(r) ==
    IF extract_json(r) # "ok" THEN extract_json(r) ELSE PlannerResultSchema(r)

PlannerResultOf(r) ==
    [selected_specialties |-> r.selected_specialties, scored_catalog |-> r.scored_catalog]

\* sorted(..., key=relevance, reverse=True): stable, descending
RECURSIVE SortedByRelevance(_)
SortedByRelevance(s) ==
    IF s = <<>> THEN <<>>
    ELSE LET rest == SortedByRelevance(SubSeq(s, 1, Len(s) - 1))
             x == s[Len(s)]
             ahead == SelectSeq(rest, LAMBDA y : y.relevance >= x.relevance)
             behind == SelectSeq(rest, LAMBDA y : y.relevance < x.relevance)
         IN ahead \o <<x>> \o behind

Ids(scored) == [k \in 1..Len(scored) |-> scored[k].specialty_id]

\* backfill candidates taken from the scored list without the catalog check
Available_AnyScored(pr, valid_selections) ==
    SelectSeq(pr.scored_catalog,
              LAMBDA s : s.specialty_id \notin Range(valid_selections))

\* the backfill candidates of the fallback
Available(pr, valid_selections) ==
    SelectSeq(pr.scored_catalog,
              LAMBDA s : s.specialty_id \in get_specialty_ids
                         /\ s.specialty_id \notin Range(valid_selections))

\* the fallback with the backfill candidates left in the order of the response
FilterAndBackfill_Unsorted(pr, top_k) ==
    LET invalid_ids == validate_specialty_ids(pr.selected_specialties)
        valid_selections == SelectSeq(pr.selected_specialties,
                                      LAMBDA sid : sid \notin Range(invalid_ids))
        available == Available(pr, valid_selections)
        needed == top_k - Len(valid_selections)
        extended == IF Len(valid_selections) < top_k
                    THEN valid_selections \o Ids(PySliceTo(available, needed))
                    ELSE valid_selections
    IN [pr EXCEPT !.selected_specialties = PySliceTo(extended, top_k)]

\* run_planner's fallback: filter the invalid ids, backfill up to top_k
FilterAndBackfill(pr, top_k) ==
    LET invalid_ids == validate_specialty_ids(pr.selected_specialties)
        valid_selections == SelectSeq(pr.selected_specialties,
                                      LAMBDA sid : sid \notin Range(invalid_ids))
        available_sorted == SortedByRelevance(Available(pr, valid_selections))
        needed == top_k - Len(valid_selections)
        extended == IF Len(valid_selections) < top_k
                    THEN valid_selections \o Ids(PySliceTo(available_sorted, needed))
                    ELSE valid_selections
    IN [pr EXCEPT !.selected_specialties = PySliceTo(extended, top_k)]

\* run_planner's last step: drop scored entries with ids outside the catalog
FilterScored(pr) ==
    [pr EXCEPT !.scored_catalog =
        SelectSeq(pr.scored_catalog, LAMBDA s : s.specialty_id \in get_specialty_ids)]

\* ------------------------------------------------------- specialist schema
Probs == {60, 120}

SpecialistResponses ==
    [kind : {"transport", "no_json", "non_object"},
     specialty_id : {None}, differential : {<<>>}]
    \cup
    [kind : {"object"},
     specialty_id : AllIds,
     differential : SeqUpTo(Probs, MaxDiff)]

RECURSIVE SumSeq(_)
SumSeq(s) == IF s = <<>> THEN 0 ELSE s[1] + SumSeq(Tail(s))

\* responses with longer differentials whose sums lie around the tolerance
WideProbs == {20, 50, 51}

WideSpecialistResponses ==
    [kind : {"transport", "no_json", "non_object"},
     specialty_id : {None}, differential : {<<>>}]
    \cup
    [kind : {"object"},
     specialty_id : AllIds,
     differential : SeqUpTo(WideProbs, MaxWideDiff)]

\* the schema without the check of the sum in validate_differential
SpecialistReportSchema_NoSumCheck(r) ==
    IF r.kind = "non_object" THEN "TypeError"
    ELSE IF \/ \E k \in 1..Len(r.differential) : r.differential[k] < 0 \/ r.differential[k] > 100
            \/ Len(r.differential) > MaxDifferential
            \/ Len(r.differential) = 0
         THEN "ValidationError"
         ELSE "ok"

\* SpecialistReport(**result_dict): "ok" or the exception raised
SpecialistReportSchema(r) ==
    IF r.kind = "non_object" THEN "TypeError"
    ELSE IF \/ \E k \in 1..Len(r.differential) : r.differential[k] < 0 \/ r.differential[k] > 100
            \/ Len(r.differential) > MaxDifferential
            \/ Len(r.differential) = 0
            \/ SumSeq(r.differential) > ProbTolerance
         THEN "ValidationError"
         ELSE "ok"

ParseSpecialist(r) ==
    IF extract_json(r) # "ok" THEN extract_json(r) ELSE SpecialistReportSchema(r)

\* SpecialistReport(**result_dict)
ParsedReportOf(r) == [specialty_id |-> r.specialty_id, differential |-> r.differential]

\* the report returned with the id the model wrote
ReportOf_KeepsParsedId(specialty_id, r) == ParsedReportOf(r)

\* the report run_specialist returns: the requested id is forced onto it
ReportOf(specialty_id, r) ==
    [specialty_id |-> specialty_id, differential |-> r.differential]

\* ------------------------------------------------------- aggregator schema
Answers == {"A", "B"}

AggregatorResponses ==
    [kind : {"transport", "no_json", "non_object"},
     final_answer : {None}, ordered_differential : {<<>>}]
    \cup
    [kind : {"object"},
     final_answer : Answers \cup {None},
     ordered_differential : SeqUpTo(Probs, 1)]

\* FinalDecision(**result_dict): "ok" or the exception raised
FinalDecisionSchema(r) ==
    IF r.kind = "non_object" THEN "TypeError"
    ELSE IF \/ r.final_answer = None
            \/ \E k \in 1..Len(r.ordered_differential) :
                   r.ordered_differential[k] < 0 \/ r.ordered_differential[k] > 100
         THEN "ValidationError"
         ELSE "ok"

ParseAggregator(r) ==
    IF extract_json(r) # "ok" THEN extract_json(r) ELSE FinalDecisionSchema(r)

FinalDecisionOf(r) ==
    [final_answer |-> r.final_answer, ordered_differential |-> r.ordered_differential]

\* how the first response of an agent is classified by the parsing code
Classify(kind, parsed) ==
    CASE kind = "transport" -> "transport"
      [] parsed = "JSONDecodeError" -> "no_json"
      [] parsed = "TypeError" -> "non_object"
      [] parsed = "ValidationError" -> "schema"
      [] OTHER -> "ok"

\* ------------------------------------------------------------ configuration
MaxRetriesValues == {0, 1, 2}

MaxSpecialistsValues == {-1, 1, 5}

TopKValues == {1, 2}

PlanTopKValues == {1, 2, 3}

MaxAgentsTotalValues == {3, 10}

Configs ==
    [max_retries : MaxRetriesValues, max_specialists : MaxSpecialistsValues,
     top_k : TopKValues, max_agents_total : MaxAgentsTotalValues]

\* ------------------------------------------------------------------- state
VARIABLES
    config,                \* the Config passed to run_case
    pc,                    \* position of run_case
    planner_result,        \* the PlannerResult parsed by run_planner
    planner_path,          \* how run_planner ended
    selected_specialties,  \* run_case's slice of the planner's selection
    idx,                   \* position of run_specialists's loop
    results,               \* run_specialists's result list (the reports)
    consult_ok,            \* per consulted position: did run_specialist return
    case,                  \* the OrchestratedCase
    trace,                 \* the CaseTrace run_case returned
    raised,                \* the exception that ended run_case
    warned,                \* the budget warning was printed
    agent,                 \* model calls of the current (or last) agent
    transport_seen         \* agents that had a transport failure

VARIABLES
    rounds,                \* run_debate's rounds argument
    debate_pc,             \* position of run_debate
    round_num,             \* run_debate's loop variable
    debate_history         \* run_debate's debate_history list

VARIABLES
    max_rounds,            \* _debate_with_specialist's max_rounds argument
    seq_pc,                \* position of _debate_with_specialist
    seq_round_num,         \* its loop variable
    debate_rounds,         \* its debate_rounds list
    seq_calls              \* model calls it has made

VARIABLES
    script,                \* the batch script that is running
    dataset_len,           \* len(dataset) of the batch
    batch_pc,              \* position of the batch function
    batch_i,               \* questions the loop has gone through
    batch_results,         \* the results list (one per method key)
    batch_raised,          \* <<method, question>> pairs whose processing raised
    checkpoint             \* content of the checkpoint file

VARIABLES
    cli_command,           \* the CLI command that was invoked
    cli_pc,                \* position of the command function
    exit_code,             \* the process exit code
    cli_raised             \* the exception the command's except clause caught

VARIABLES
    parsed_reports         \* the SpecialistReports as SpecialistReport(**result_dict) built them

debateVars == <<rounds, debate_pc, round_num, debate_history>>

specVars == <<parsed_reports>>

cliVars == <<cli_command, cli_pc, exit_code, cli_raised>>

batchVars == <<script, dataset_len, batch_pc, batch_i, batch_results, batch_raised,
               checkpoint>>

\* the state of the functions that are not part of run_case and the baselines
seqVars == <<max_rounds, seq_pc, seq_round_num, debate_rounds, seq_calls>>

caseVars == <<config, pc, planner_result, planner_path, selected_specialties, idx,
              results, consult_ok, case, trace, raised, warned, agent, transport_seen>>

\* ------------------------------------------- state of the utilities and runners
VARIABLES
    jx_text,               \* the model response handed to extract_json_from_llm_response
    jx_raw,                \* the JSON object embedded in it
    jx_pc,                 \* "start" before the call, "done" after it
    jx_out,                \* what the call returned
    jx_raised              \* TRUE when the call raised JSONDecodeError

VARIABLES
    det_agent,             \* the agent function called twice: planner, specialist or aggregator
    mock_responses,        \* MockLLMClient.mock_responses: the response to each prompt
    mock_call_count,       \* MockLLMClient.call_count
    det_run,               \* 0 when idle, 1 during the first call of the function, 2 during the second
    det_first              \* what the first call of the function produced

VARIABLES
    na_script,             \* the script whose normalize_answer is called
    na_answer,             \* its argument
    na_pc,                 \* "start" before the call, "done" after it
    na_out                 \* the string it returned

VARIABLES
    maj_pc,                \* where run_independent_multi_agent_majority stands
    maj_specialists,       \* the three selected specialist names
    maj_agent_responses,   \* the answer of each agent so far
    maj_synthesis_text,    \* the text of the synthesis response
    maj_calls,             \* tokens_used of every model call made so far
    maj_result             \* the dict the strategy returned

VARIABLES
    rq_pc,                 \* where run_queue stands
    stop_when_empty,       \* the argument of run_queue
    rq_queue,              \* the configs in the queue directory, oldest first
    rq_arrived,            \* how many configs were put into the queue directory
    rq_current,            \* the config whose experiment is running
    rq_completed,          \* the configs in completed/
    rq_failed,             \* the configs in failed/
    rq_outcome,            \* each config taken so far with how it ended
    rq_idle_time,          \* time.time() - last_activity
    rq_empty_for           \* for how long the queue directory has been empty

VARIABLES
    rs_run,                \* 0 when idle, 1 in the first run of the script, 2 after it was started again
    start_idx,             \* the number of questions the second run skips
    rs_checkpoint_at,      \* how many questions had been processed when the checkpoint was written
    rs_evaluated           \* the questions the second run evaluated

VARIABLES
    be_pc,                 \* where run_all stands
    be_experiments,        \* the experiments of the batch file, in file order
    continue_on_error,     \* the argument of run_all (not --stop-on-error)
    dry_run,               \* ExperimentRunner.dry_run
    be_started,            \* the experiments run_experiment was called on, in call order
    be_results             \* ExperimentRunner.results: the status of each experiment run

VARIABLES
    asc_pc,                \* where run_answer_space_consultation stands
    asc_selected,          \* answer_space_analysis['specialists']
    asc_consultations,     \* the consultations list
    asc_aggregated,        \* aggregation['aggregated_answer']
    asc_result             \* the dict the run returns

jsonVars == <<jx_text, jx_raw, jx_pc, jx_out, jx_raised>>

mockVars == <<det_agent, mock_responses, mock_call_count, det_run, det_first>>

normVars == <<na_script, na_answer, na_pc, na_out>>

majVars == <<maj_pc, maj_specialists, maj_agent_responses, maj_synthesis_text, maj_calls, maj_result>>

queueVars == <<rq_pc, stop_when_empty, rq_queue, rq_arrived, rq_current, rq_completed, rq_failed, rq_outcome, rq_idle_time, rq_empty_for>>

resumeVars == <<rs_run, start_idx, rs_checkpoint_at, rs_evaluated>>

experimentsVars == <<be_pc, be_experiments, continue_on_error, dry_run, be_started, be_results>>

consultationVars == <<asc_pc, asc_selected, asc_consultations, asc_aggregated, asc_result>>

utilVars == <<jsonVars, mockVars, normVars, majVars, queueVars, resumeVars, experimentsVars, consultationVars>>

coreVars == <<caseVars, debateVars, seqVars, batchVars, specVars, cliVars>>

\* what the steps on jsonVars leave alone
jsonFrame == <<coreVars, mockVars, normVars, majVars, queueVars, resumeVars, experimentsVars, consultationVars>>

\* what the steps on mockVars leave alone
mockFrame == <<debateVars, seqVars, batchVars, specVars, cliVars, jsonVars, normVars, majVars, queueVars, resumeVars, experimentsVars, consultationVars>>

\* what the steps on normVars leave alone
normFrame == <<coreVars, jsonVars, mockVars, majVars, queueVars, resumeVars, experimentsVars, consultationVars>>

\* what the steps on majVars leave alone
majFrame == <<coreVars, jsonVars, mockVars, normVars, queueVars, resumeVars, experimentsVars, consultationVars>>

\* what the steps on queueVars leave alone
queueFrame == <<coreVars, jsonVars, mockVars, normVars, majVars, resumeVars, experimentsVars, consultationVars>>

\* what the steps on resumeVars leave alone
resumeFrame == <<caseVars, debateVars, seqVars, specVars, cliVars, jsonVars, mockVars, normVars, majVars, queueVars, experimentsVars, consultationVars>>

\* what the steps on experimentsVars leave alone
experimentsFrame == <<coreVars, jsonVars, mockVars, normVars, majVars, queueVars, resumeVars, consultationVars>>

\* what the steps on consultationVars leave alone
consultationFrame == <<coreVars, jsonVars, mockVars, normVars, majVars, queueVars, resumeVars, experimentsVars>>

\* ------------------------------------------------------------ end of that state

extVars == <<batchVars, specVars, cliVars, utilVars>>

AgentTrace(agent_type, specialty_id) ==
    [agent_type |-> agent_type, specialty_id |-> specialty_id]

\* the unset Optional fields of OrchestratedCase.__init__
NoTrace == AgentTrace(None, None)

NoDecision == [final_answer |-> None, ordered_differential |-> <<>>]

NoResult == [selected_specialties |-> <<>>, scored_catalog |-> <<>>]

\* OrchestratedCase(question, options, correct_answer)
OrchestratedCase(correct_answer) ==
    [planner_trace |-> NoTrace, specialist_reports |-> <<>>, specialist_traces |-> <<>>,
     aggregator_trace |-> NoTrace, final_decision |-> NoDecision,
     correct_answer |-> correct_answer]

NewCase == OrchestratedCase(None)

NoCaseTrace ==
    [planner_trace |-> NoTrace, specialist_traces |-> <<>>,
     aggregator_trace |-> NoTrace, final_decision |-> NoDecision,
     correct_answer |-> None, predicted_answer |-> None, is_correct |-> None]

\* the correct_answer argument of run_case: absent, empty, or an option letter
CorrectAnswers == {None, "", "A", "B"}

DefaultConfig ==
    [max_retries |-> 1, max_specialists |-> 5, top_k |-> 5, max_agents_total |-> 10]

CaseStartWith(cfgs, at, selections, answers) ==
    /\ config \in cfgs
    /\ pc = at
    /\ planner_result = NoResult
    /\ planner_path = "none"
    /\ selected_specialties \in selections
    /\ idx = 1
    /\ results = <<>>
    /\ consult_ok = <<>>
    /\ case \in {OrchestratedCase(a) : a \in answers}
    /\ trace = NoCaseTrace
    /\ raised = None
    /\ warned = FALSE
    /\ agent = [name |-> None, calls |-> 0, first |-> "none", last |-> "none"]
    /\ transport_seen = {}

CaseStart(cfgs, at) == CaseStartWith(cfgs, at, {<<>>}, {None})

InitCase == CaseStart(Configs, "planner")

IdleCase == CaseStart({DefaultConfig}, "idle")

\* the except clause of run_case: every exception becomes a RuntimeError
Fail(exc) ==
    /\ pc' = "failed"
    /\ raised' = exc

\* bookkeeping of llm_client.complete calls: the first call of an agent, a
\* further call of the same agent
FirstCallOf(name, class) == [name |-> name, calls |-> 1, first |-> class, last |-> class]

NextCallOf(class) == [agent EXCEPT !.calls = agent.calls + 1, !.last = class]

SawTransport(r, name) ==
    transport_seen' = IF r.kind = "transport" THEN transport_seen \cup {name}
                      ELSE transport_seen

\* a retry test that needs more than one retry in the budget
ShouldRetry_MoreThanOne(retry, max_retries) == retry /\ max_retries > 1

\* "if config.budgets.max_retries > 0" (planner), "if retry and
\* config.budgets.max_retries > 0" (specialist, aggregator; retry defaults to True)
ShouldRetry(retry, max_retries) == retry /\ max_retries > 0

\* ------------------------------------------------------------- run_planner
\* run_planner returned pr; run_case records the trace and slices the selection
PlannerReturn(pr, path) ==
    /\ planner_result' = pr
    /\ planner_path' = path
    /\ case' = [case EXCEPT !.planner_trace = AgentTrace("planner", None)]
    /\ selected_specialties' = PySliceTo(pr.selected_specialties, config.max_specialists)
    /\ pc' = "specialists"
    /\ UNCHANGED <<raised>>

PlannerRaise(exc) ==
    /\ Fail(exc)
    /\ planner_path' = "raised"
    /\ UNCHANGED <<planner_result, case, selected_specialties>>

\* the first model call of run_planner and everything up to its return, its
\* raise or its corrective retry
PlannerFirstCallOn(responses) ==
    /\ pc = "planner"
    /\ \E r \in responses :
         LET parsed == ParsePlanner(r)
             pr == PlannerResultOf(r)
             invalid_ids == validate_specialty_ids(pr.selected_specialties)
         IN /\ SawTransport(r, "planner")
            /\ agent' = FirstCallOf("planner",
                             IF r.kind # "transport" /\ parsed = "ok" /\ invalid_ids # <<>>
                             THEN "invalid_ids" ELSE Classify(r.kind, parsed))
            /\ IF r.kind = "transport" THEN PlannerRaise("RuntimeError")
               ELSE IF IsValueError(parsed) THEN PlannerRaise("ValueError")
               ELSE IF parsed # "ok" THEN PlannerRaise(parsed)
               ELSE IF invalid_ids = <<>> THEN PlannerReturn(FilterScored(pr), "first")
               ELSE IF ShouldRetry(TRUE, config.max_retries)
                    THEN /\ pc' = "planner_retry"
                         /\ planner_result' = pr
                         /\ UNCHANGED <<planner_path, case, selected_specialties, raised>>
                    ELSE PlannerRaise("ValueError")
    /\ UNCHANGED <<config, idx, results, consult_ok, trace, warned>>

PlannerFirstCall ==
    /\ PlannerFirstCallOn(PlannerResponses)
    /\ UNCHANGED <<debateVars, seqVars, extVars>>

\* first responses with a longer scored_catalog, all of them JSON objects
PlanScoredEntries == [specialty_id : AllIds, relevance : {rel \in Relevances : rel <= 100}]

PlanResponses ==
    [kind : {"object"},
     selected_specialties : SeqUpTo(AllIds, MaxPlanSel),
     scored_catalog : SeqUpTo(PlanScoredEntries, MaxPlanScored)]

PlannerFirstCallWide ==
    /\ PlannerFirstCallOn(PlanResponses)
    /\ UNCHANGED <<debateVars, seqVars, extVars>>

\* _retry_planner_with_correction and run_planner's handling of its outcome
PlannerRetryCallOn(responses) ==
    /\ pc = "planner_retry"
    /\ \E r \in responses :
         LET parsed == ParsePlanner(r)
             pr == PlannerResultOf(r)
             still_invalid == validate_specialty_ids(pr.selected_specialties)
             exc == IF r.kind = "transport" THEN "RuntimeError"
                    ELSE IF parsed # "ok" THEN (IF IsValueError(parsed) THEN "ValueError" ELSE parsed)
                    ELSE IF still_invalid # <<>> THEN "ValueError"
                    ELSE "ok"
         IN /\ SawTransport(r, "planner")
            /\ agent' = NextCallOf(
                             IF r.kind # "transport" /\ parsed = "ok" /\ still_invalid # <<>>
                             THEN "invalid_ids" ELSE Classify(r.kind, parsed))
            /\ IF exc = "ok" THEN PlannerReturn(pr, "retry")
               ELSE IF IsValueError(exc)
                    THEN PlannerReturn(
                             FilterScored(FilterAndBackfill(planner_result, config.top_k)),
                             "fallback")
                    ELSE PlannerRaise(exc)
    /\ UNCHANGED <<config, idx, results, consult_ok, trace, warned>>

PlannerRetryCall ==
    /\ PlannerRetryCallOn(PlannerResponses)
    /\ UNCHANGED <<debateVars, seqVars, extVars>>

\* ---------------------------------------------------------- run_specialists
\* results.insert(0, ...) in place of results.append(...)
AppendResult_Front(res, report) == <<report>> \o res

\* results.append((report, response))
AppendResult(res, report) == Append(res, report)

\* "except ValueError" in place of "except Exception"
SkipsException_OnlyValueError(exc) == exc = "ValueError"

\* the except clause of run_specialists's loop: which exceptions are skipped
\* ("except Exception" catches every exception a consultation can raise)
SkipsException(exc) == TRUE

\* run_specialist returned a report for position idx
SpecialistReturn(report) ==
    /\ results' = AppendResult(results, report)
    /\ consult_ok' = Append(consult_ok, TRUE)
    /\ idx' = idx + 1
    /\ pc' = "specialists"
    /\ UNCHANGED <<raised>>

\* the loop left with its last specialty id still to come
AllConsulted_OneLeft(i, specialty_ids) == i >= Len(specialty_ids)

\* for specialty_id in specialty_ids: has run through every id
AllConsulted(i, specialty_ids) == i > Len(specialty_ids)

\* run_specialist raised exc at position idx
SpecialistRaise(exc) ==
    IF SkipsException(exc)
    THEN /\ consult_ok' = Append(consult_ok, FALSE)
         /\ idx' = idx + 1
         /\ pc' = "specialists"
         /\ UNCHANGED <<results, raised>>
    ELSE /\ Fail(exc)
         /\ UNCHANGED <<results, consult_ok, idx>>

\* one iteration of run_specialists's loop up to the first model call's outcome
SpecialistFirstCallOn(responses) ==
    /\ pc = "specialists"
    /\ ~AllConsulted(idx, selected_specialties)
    /\ LET specialty_id == selected_specialties[idx]
       IN IF get_specialty_by_id(specialty_id) = None
          THEN /\ SpecialistRaise("ValueError")
               /\ agent' = [name |-> "specialist", calls |-> 0, first |-> "none", last |-> "none"]
               /\ UNCHANGED transport_seen
          ELSE \E r \in responses :
                 LET parsed == ParseSpecialist(r)
                 IN /\ SawTransport(r, "specialist")
                    /\ agent' = FirstCallOf("specialist", Classify(r.kind, parsed))
                    /\ IF r.kind = "transport" THEN SpecialistRaise("RuntimeError")
                       ELSE IF parsed = "ok" THEN SpecialistReturn(ReportOf(specialty_id, r))
                       ELSE IF IsValueError(parsed)
                            THEN IF ShouldRetry(TRUE, config.max_retries)
                                 THEN /\ pc' = "specialist_retry"
                                      /\ UNCHANGED <<results, consult_ok, idx, raised>>
                                 ELSE SpecialistRaise("ValueError")
                            ELSE SpecialistRaise(parsed)
    /\ UNCHANGED <<config, planner_result, planner_path, selected_specialties, case,
                   trace, warned>>

SpecialistFirstCall ==
    /\ SpecialistFirstCallOn(SpecialistResponses)
    /\ UNCHANGED <<debateVars, seqVars, extVars>>

\* _retry_specialist_with_fix
SpecialistRetryCallOn(responses) ==
    /\ pc = "specialist_retry"
    /\ \E r \in responses :
         LET parsed == ParseSpecialist(r)
         IN /\ SawTransport(r, "specialist")
            /\ agent' = NextCallOf(Classify(r.kind, parsed))
            /\ IF r.kind = "transport" THEN SpecialistRaise("RuntimeError")
               ELSE IF parsed = "ok"
                    THEN SpecialistReturn(ReportOf(selected_specialties[idx], r))
               ELSE IF IsValueError(parsed) THEN SpecialistRaise("ValueError")
               ELSE SpecialistRaise(parsed)
    /\ UNCHANGED <<config, planner_result, planner_path, selected_specialties, case,
                   trace, warned>>

SpecialistRetryCall ==
    /\ SpecialistRetryCallOn(SpecialistResponses)
    /\ UNCHANGED <<debateVars, seqVars, extVars>>

\* the same calls on the wider responses, with the parsed report kept aside
SpecialistFirstCallWide ==
    \E r \in WideSpecialistResponses :
        /\ SpecialistFirstCallOn({r})
        /\ parsed_reports' = IF results' # results
                              THEN Append(parsed_reports, ParsedReportOf(r))
                              ELSE parsed_reports
        /\ UNCHANGED <<debateVars, seqVars, batchVars, cliVars, utilVars>>

SpecialistRetryCallWide ==
    \E r \in WideSpecialistResponses :
        /\ SpecialistRetryCallOn({r})
        /\ parsed_reports' = IF results' # results
                              THEN Append(parsed_reports, ParsedReportOf(r))
                              ELSE parsed_reports
        /\ UNCHANGED <<debateVars, seqVars, batchVars, cliVars, utilVars>>

\* the end of run_specialists and run_case's loop over its results
SpecialistsDone ==
    /\ pc = "specialists"
    /\ AllConsulted(idx, selected_specialties)
    /\ IF results = <<>>
       THEN /\ Fail("ValueError")
            /\ UNCHANGED case
       ELSE /\ case' = [case EXCEPT
                  !.specialist_reports = case.specialist_reports \o results,
                  !.specialist_traces = case.specialist_traces \o
                      [k \in 1..Len(results) |->
                          AgentTrace("specialist", results[k].specialty_id)]]
            /\ pc' = "aggregator"
            /\ UNCHANGED raised
    /\ UNCHANGED <<config, planner_result, planner_path, selected_specialties, idx,
                   results, consult_ok, trace, warned, agent, transport_seen>>
    /\ UNCHANGED <<debateVars, seqVars, extVars>>

\* ----------------------------------------------------------- run_aggregator
\* a budget test that already warns at the limit
BudgetExceeded_AtLeast(total_agents, max_agents_total) == total_agents >= max_agents_total

\* "if total_agents > config.budgets.max_agents_total: print(Warning ...)"
BudgetExceeded(total_agents, max_agents_total) == total_agents > max_agents_total

\* True / False as the strings Python prints, next to None
PyBool(b) == IF b THEN "True" ELSE "False"

\* a truth test that only asks for "is not None"
Truthy_NotNone(v) == v # None

\* "if self.correct_answer": None and the empty string are false
Truthy(v) == v # None /\ v # ""

\* the is_correct of to_trace
IsCorrectOf(c) ==
    IF Truthy(c.correct_answer) /\ c.final_decision # NoDecision
    THEN PyBool(c.final_decision.final_answer = c.correct_answer)
    ELSE None

\* a to_trace that leaves the specialist traces out
to_trace_DropSpecialists(c) ==
    [planner_trace |-> c.planner_trace,
     specialist_traces |-> <<>>,
     aggregator_trace |-> c.aggregator_trace,
     final_decision |-> c.final_decision,
     correct_answer |-> c.correct_answer,
     predicted_answer |-> c.final_decision.final_answer,
     is_correct |-> IsCorrectOf(c)]

\* OrchestratedCase.to_trace
to_trace(c) ==
    [planner_trace |-> c.planner_trace,
     specialist_traces |-> c.specialist_traces,
     aggregator_trace |-> c.aggregator_trace,
     final_decision |-> c.final_decision,
     correct_answer |-> c.correct_answer,
     predicted_answer |-> c.final_decision.final_answer,
     is_correct |-> IsCorrectOf(c)]

\* run_aggregator returned: run_case records it, checks the budget and returns
AggregatorReturn(final_decision) ==
    LET done == [case EXCEPT !.final_decision = final_decision,
                             !.aggregator_trace = AgentTrace("aggregator", None)]
        total_agents == 1 + Len(done.specialist_reports) + 1
    IN /\ case' = done
       /\ warned' = BudgetExceeded(total_agents, config.max_agents_total)
       /\ IF done.planner_trace = NoTrace \/ done.aggregator_trace = NoTrace
             \/ done.final_decision = NoDecision
          THEN /\ Fail("ValueError")
               /\ UNCHANGED trace
          ELSE /\ trace' = to_trace(done)
               /\ pc' = "returned"
               /\ UNCHANGED raised

AggregatorRaise(exc) ==
    /\ Fail(exc)
    /\ UNCHANGED <<case, trace, warned>>

AggregatorFirstCallOn(responses) ==
    /\ pc = "aggregator"
    /\ IF case.specialist_reports = <<>>
       THEN /\ AggregatorRaise("ValueError")
            /\ agent' = [name |-> "aggregator", calls |-> 0, first |-> "none", last |-> "none"]
            /\ UNCHANGED transport_seen
       ELSE \E r \in responses :
              LET parsed == ParseAggregator(r)
              IN /\ SawTransport(r, "aggregator")
                 /\ agent' = FirstCallOf("aggregator", Classify(r.kind, parsed))
                 /\ IF r.kind = "transport" THEN AggregatorRaise("RuntimeError")
                    ELSE IF parsed = "ok" THEN AggregatorReturn(FinalDecisionOf(r))
                    ELSE IF IsValueError(parsed)
                         THEN IF ShouldRetry(TRUE, config.max_retries)
                              THEN /\ pc' = "aggregator_retry"
                                   /\ UNCHANGED <<case, trace, warned, raised>>
                              ELSE AggregatorRaise("ValueError")
                         ELSE AggregatorRaise(parsed)
    /\ UNCHANGED <<config, planner_result, planner_path, selected_specialties, idx,
                   results, consult_ok>>

AggregatorFirstCall ==
    /\ AggregatorFirstCallOn(AggregatorResponses)
    /\ UNCHANGED <<debateVars, seqVars, extVars>>

\* _retry_aggregator_with_fix
AggregatorRetryCallOn(responses) ==
    /\ pc = "aggregator_retry"
    /\ \E r \in responses :
         LET parsed == ParseAggregator(r)
         IN /\ SawTransport(r, "aggregator")
            /\ agent' = NextCallOf(Classify(r.kind, parsed))
            /\ IF r.kind = "transport" THEN AggregatorRaise("RuntimeError")
               ELSE IF parsed = "ok" THEN AggregatorReturn(FinalDecisionOf(r))
               ELSE IF IsValueError(parsed) THEN AggregatorRaise("ValueError")
               ELSE AggregatorRaise(parsed)
    /\ UNCHANGED <<config, planner_result, planner_path, selected_specialties, idx,
                   results, consult_ok>>

AggregatorRetryCall ==
    /\ AggregatorRetryCallOn(AggregatorResponses)
    /\ UNCHANGED <<debateVars, seqVars, extVars>>

\* =============================================================== run_debate
Positions == {"A", "B"}

DebateRoundsValues == 0..MaxDebateRounds

\* the "round" label of the consensus entry ("consensus" in the source)
ConsensusRound == 0

IdleDebate ==
    /\ rounds = 0
    /\ debate_pc = "idle"
    /\ round_num = 0
    /\ debate_history = <<>>

InitDebate ==
    /\ rounds \in DebateRoundsValues
    /\ debate_pc = "agent_a_initial"
    /\ round_num = 1
    /\ debate_history = <<>>

\* range(2, rounds + 2): one rebuttal round too many
RebuttalRange_OneMore(n) == 2..(n + 1)

\* "for round_num in range(2, rounds + 1)"
RebuttalRange(n) == 2..n

\* where run_debate goes after finishing round r
AfterRound(r) ==
    IF r + 1 \in RebuttalRange(rounds)
    THEN /\ debate_pc' = "agent_a_rebuttal"
         /\ round_num' = r + 1
    ELSE /\ debate_pc' = "consensus"
         /\ round_num' = r

\* a model call of run_debate failed at transport level: nothing catches it
DebateRaise ==
    /\ debate_pc' = "raised"
    /\ UNCHANGED <<round_num, debate_history>>

DebateEntry(r, who, position) == [round |-> r, agent |-> who, position |-> position]

\* Round 1: Agent A's initial position
AgentAInitial ==
    /\ debate_pc = "agent_a_initial"
    /\ \/ DebateRaise
       \/ \E p \in Positions :
            /\ debate_history' = Append(debate_history, DebateEntry(1, "A", p))
            /\ debate_pc' = "agent_b_initial"
            /\ UNCHANGED round_num
    /\ UNCHANGED <<rounds, caseVars, seqVars, extVars>>

\* Round 1: Agent B's counter-position
AgentBInitial ==
    /\ debate_pc = "agent_b_initial"
    /\ \/ DebateRaise
       \/ \E p \in Positions :
            /\ debate_history' = Append(debate_history, DebateEntry(1, "B", p))
            /\ AfterRound(1)
    /\ UNCHANGED <<rounds, caseVars, seqVars, extVars>>

\* Agent A responds to B
AgentARebuttal ==
    /\ debate_pc = "agent_a_rebuttal"
    /\ \/ DebateRaise
       \/ \E p \in Positions :
            /\ debate_history' = Append(debate_history, DebateEntry(round_num, "A", p))
            /\ debate_pc' = "agent_b_rebuttal"
            /\ UNCHANGED round_num
    /\ UNCHANGED <<rounds, caseVars, seqVars, extVars>>

\* Agent B responds to A
AgentBRebuttal ==
    /\ debate_pc = "agent_b_rebuttal"
    /\ \/ DebateRaise
       \/ \E p \in Positions :
            /\ debate_history' = Append(debate_history, DebateEntry(round_num, "B", p))
            /\ AfterRound(round_num)
    /\ UNCHANGED <<rounds, caseVars, seqVars, extVars>>

\* Final consensus
Consensus ==
    /\ debate_pc = "consensus"
    /\ \/ DebateRaise
       \/ \E p \in Positions :
            /\ debate_history' =
                   Append(debate_history, DebateEntry(ConsensusRound, "Moderator", p))
            /\ debate_pc' = "done"
            /\ UNCHANGED round_num
    /\ UNCHANGED <<rounds, caseVars, seqVars, extVars>>

NextDebate ==
    \/ AgentAInitial
    \/ AgentBInitial
    \/ AgentARebuttal
    \/ AgentBRebuttal
    \/ Consensus

\* ================================================== _debate_with_specialist
\* Texts are sequences of words; "phrase in text" is containment of the
\* phrase's words as a contiguous run.
agreement_phrases ==
    {<<"I", "AGREE">>, <<"I", "agree">>, <<"we", "agree">>,
     <<"reached", "agreement">>, <<"in", "agreement">>, <<"consensus">>}

Texts ==
    {<<"I", "AGREE", "with", "the", "assessment">>,
     <<"I", "disagree">>,
     <<"no", "consensus", "yet">>,
     <<"We", "Agree">>}

Contains(text, phrase) ==
    \E k \in 0..(Len(text) - Len(phrase)) :
        SubSeq(text, k + 1, k + Len(phrase)) = phrase

_check_agreement(text) == \E phrase \in agreement_phrases : Contains(text, phrase)

SeqRoundsValues == 0..MaxSeqRounds

IdleSeq ==
    /\ max_rounds = 0
    /\ seq_pc = "idle"
    /\ seq_round_num = 0
    /\ debate_rounds = <<>>
    /\ seq_calls = 0

InitSeq ==
    /\ max_rounds \in SeqRoundsValues
    /\ seq_pc = "specialist_initial"
    /\ seq_round_num = 1
    /\ debate_rounds = <<>>
    /\ seq_calls = 0

SeqEntry(r, speaker, content) == [round |-> r, speaker |-> speaker, content |-> content]

\* "for round_num in range(2, max_rounds + 1)": enter round r or return
EnterRound(r) ==
    IF r \in 2..max_rounds
    THEN /\ seq_pc' = "generalist"
         /\ seq_round_num' = r
    ELSE /\ seq_pc' = "done"
         /\ UNCHANGED seq_round_num

\* "if round_num <= max_rounds": a rebuttal also in the last round
HasRebuttal_Inclusive(r, cap) == r <= cap

\* "if round_num < max_rounds": the specialist gets a rebuttal
HasRebuttal(r, cap) == r < cap

\* a model call failed at transport level: nothing catches it
SeqRaise ==
    /\ seq_pc' = "raised"
    /\ seq_calls' = seq_calls + 1
    /\ UNCHANGED <<seq_round_num, debate_rounds>>

\* Round 1: Specialist's initial consultation
SpecialistInitial ==
    /\ seq_pc = "specialist_initial"
    /\ \/ SeqRaise
       \/ \E text \in Texts :
            /\ seq_calls' = seq_calls + 1
            /\ debate_rounds' = Append(debate_rounds, SeqEntry(1, "specialist", text))
            /\ EnterRound(2)
    /\ UNCHANGED <<max_rounds, caseVars, debateVars, extVars>>

\* Generalist responds, then the agreement check and the rebuttal test
GeneralistResponds ==
    /\ seq_pc = "generalist"
    /\ \/ SeqRaise
       \/ \E text \in Texts :
            /\ seq_calls' = seq_calls + 1
            /\ debate_rounds' =
                   Append(debate_rounds, SeqEntry(seq_round_num, "generalist", text))
            /\ IF _check_agreement(text)
               THEN seq_pc' = "done" /\ UNCHANGED seq_round_num
               ELSE IF HasRebuttal(seq_round_num, max_rounds)
                    THEN seq_pc' = "specialist_rebuttal" /\ UNCHANGED seq_round_num
                    ELSE EnterRound(seq_round_num + 1)
    /\ UNCHANGED <<max_rounds, caseVars, debateVars, extVars>>

\* Specialist's rebuttal, then the agreement check
SpecialistRebuttal ==
    /\ seq_pc = "specialist_rebuttal"
    /\ \/ SeqRaise
       \/ \E text \in Texts :
            /\ seq_calls' = seq_calls + 1
            /\ debate_rounds' =
                   Append(debate_rounds, SeqEntry(seq_round_num, "specialist", text))
            /\ IF _check_agreement(text)
               THEN seq_pc' = "done" /\ UNCHANGED seq_round_num
               ELSE EnterRound(seq_round_num + 1)
    /\ UNCHANGED <<max_rounds, caseVars, debateVars, extVars>>

NextSeq ==
    \/ SpecialistInitial
    \/ GeneralistResponds
    \/ SpecialistRebuttal

\* ============================================================= batch loops
\* evaluate_on_subset (src/medqa.py), run_comparison
\* (scripts/run_baseline_comparison.py), test_graph_of_thoughts and
\* test_progressive_temperature_parallel: one step per question of the loop.
Scripts == {"medqa", "run_baseline_comparison", "test_graph_of_thoughts",
            "test_progressive_temperature_parallel"}

\* the keys of run_comparison's results dict; the other scripts keep one list
Methods(s) ==
    IF s = "run_baseline_comparison"
    THEN {"adaptive_mas", "single_cot", "fixed_pipeline", "debate", "sequential_debate"}
    ELSE {"results"}

NoInterval == 0

\* "every N questions": 10, 10 and 50; evaluate_on_subset writes no checkpoint
CheckpointEvery(s) ==
    CASE s = "run_baseline_comparison" -> 10
      [] s = "test_graph_of_thoughts" -> 10
      [] s = "test_progressive_temperature_parallel" -> 50
      [] OTHER -> NoInterval

\* dataset lengths: empty, one question, one interval, and past an interval
DatasetLengths(s) ==
    {0, 1, CheckpointEvery(s), CheckpointEvery(s) + MaxOver}

BatchExceptions == {"RuntimeError", "KeyError"}

\* enumerate(dataset, 1) everywhere but in test_graph_of_thoughts, which
\* counts from 0
QuestionIdx(s, k) == IF s = "test_graph_of_thoughts" THEN k - 1 ELSE k

OkEntry(s, k) == [question_idx |-> QuestionIdx(s, k), predicted |-> "A"]

ErrorEntry(s, k, exc) == [question_idx |-> QuestionIdx(s, k), error |-> exc]

\* the except branch of the loop appends an error entry
RecordsError(s) == s # "test_graph_of_thoughts"

NoCheckpoint == [exists |-> FALSE, results |-> <<>>]

Saved(res) == [exists |-> TRUE, results |-> res]

EmptyResults(s) == [m \in Methods(s) |-> <<>>]

IdleBatch ==
    /\ script = "medqa"
    /\ dataset_len = 0
    /\ batch_pc = "idle"
    /\ batch_i = 0
    /\ batch_results = EmptyResults("medqa")
    /\ batch_raised = {}
    /\ checkpoint = NoCheckpoint

InitBatch ==
    /\ script \in Scripts
    /\ dataset_len \in DatasetLengths(script)
    /\ batch_pc = "loop"
    /\ batch_i = 0
    /\ batch_results = EmptyResults(script)
    /\ batch_raised = {}
    /\ checkpoint = NoCheckpoint

CatchesQuestionError_OnlyRuntimeError(exc) == exc = "RuntimeError"

\* except Exception as e: around the work on one question
CatchesQuestionError(exc) == TRUE

\* results after question k, whose methods in errs raised exc
ResultsAfter(s, res, k, errs, exc) ==
    [m \in DOMAIN res |->
        IF m \in errs
        THEN IF RecordsError(s) THEN Append(res[m], ErrorEntry(s, k, exc)) ELSE res[m]
        ELSE Append(res[m], OkEntry(s, k))]

\* is the checkpoint written in the iteration of question k
WritesCheckpoint(s, k, n, errs) ==
    CASE s = "run_baseline_comparison" -> k % CheckpointEvery(s) = 0
      [] s = "test_graph_of_thoughts" -> errs = {} /\ k % CheckpointEvery(s) = 0
      [] s = "test_progressive_temperature_parallel" ->
            errs = {} /\ (k % CheckpointEvery(s) = 0 \/ k = n)
      [] OTHER -> FALSE

\* one iteration of the for loop: every method of the script runs on question
\* batch_i + 1; the methods in errs raise exc
BatchQuestion(errs, exc) ==
    /\ batch_pc = "loop"
    /\ batch_i < dataset_len
    /\ Cardinality(batch_raised) + Cardinality(errs) <= MaxErrors
    /\ LET k == batch_i + 1
           res == ResultsAfter(script, batch_results, k, errs, exc)
       IN  /\ batch_raised' = batch_raised \cup {<<m, k>> : m \in errs}
           /\ IF errs # {} /\ ~CatchesQuestionError(exc)
              THEN /\ batch_pc' = "raised"
                   /\ UNCHANGED <<batch_i, batch_results, checkpoint>>
              ELSE /\ batch_i' = k
                   /\ batch_results' = res
                   /\ checkpoint' = IF WritesCheckpoint(script, k, dataset_len, errs)
                                    THEN Saved(res) ELSE checkpoint
                   /\ UNCHANGED batch_pc
    /\ UNCHANGED <<script, dataset_len>>

QuestionOk ==
    /\ BatchQuestion({}, "RuntimeError")
    /\ UNCHANGED <<caseVars, debateVars, seqVars, specVars, cliVars, utilVars>>

QuestionRaises ==
    /\ \E errs \in SUBSET Methods(script) \ {{}} : \E exc \in BatchExceptions :
           BatchQuestion(errs, exc)
    /\ UNCHANGED <<caseVars, debateVars, seqVars, specVars, cliVars, utilVars>>

\* json.dumps(summary_data, f, indent=2) of evaluate_on_subset: dumps takes
\* one positional argument
SummaryRaises(s) == s = "medqa"

\* the loop is over: the code after it saves the results and the summary
BatchSummary ==
    /\ batch_pc = "loop"
    /\ batch_i = dataset_len
    /\ batch_pc' = IF SummaryRaises(script) THEN "raised" ELSE "done"
    /\ UNCHANGED <<script, dataset_len, batch_i, batch_results, batch_raised, checkpoint>>
    /\ UNCHANGED <<caseVars, debateVars, seqVars, specVars, cliVars, utilVars>>

NextBatch ==
    \/ QuestionOk
    \/ QuestionRaises
    \/ BatchSummary

\* no report has been parsed
IdleReports == parsed_reports = <<>>

\* ===================================================================== CLI
\* the commands run, plan and eval of src/app.py
Commands == {"run", "plan", "eval"}

NoExit == -1

IdleCli ==
    /\ cli_command = None
    /\ cli_pc = "idle"
    /\ exit_code = NoExit
    /\ cli_raised = None

\* the function returns (0), or "except Exception: raise typer.Exit(code=1)"
ExitCodeOf(exc) == IF exc = None THEN 0 ELSE 1

\* the body of the command is over: what did its try block raise
BodyOver(io) ==
    CASE cli_command = "run" ->
            IF pc = "failed" THEN "RuntimeError"
            ELSE IF pc = "returned" THEN io
            ELSE "running"
      [] cli_command = "plan" ->
            IF pc = "failed" THEN raised
            ELSE IF pc = "specialists" THEN None
            ELSE "running"
      [] cli_command = "eval" ->
            IF batch_pc = "raised" THEN "TypeError"
            ELSE IF batch_pc = "done" THEN None
            ELSE "running"
      [] OTHER -> "running"

\* the end of the command: save_trace and the output of run, the panel of
\* plan, the table of eval, or the except clause
CliExit ==
    /\ cli_pc = "body"
    /\ \E io \in {None, "OSError"} :
          /\ BodyOver(io) # "running"
          /\ cli_raised' = BodyOver(io)
          /\ exit_code' = ExitCodeOf(BodyOver(io))
    /\ cli_pc' = "exited"
    /\ UNCHANGED <<cli_command, caseVars, debateVars, seqVars, batchVars, specVars, utilVars>>

\* ---------------------------------------------------------------- json_utils.py
\* A response is a sequence of tokens, one position per token: the two fence
\* openers, the delimiters find/rfind look for, a double quote, a word, the
\* comment markers the two regular expressions look for, and a newline.
MaxPreamble == 1
MaxContent == 2
MaxTrailing == 1

FenceJson == "fence_json"
Fence == "fence"
Newline == "nl"
LBrace == "lbrace"
RBrace == "rbrace"
LBracket == "lbracket"
RBracket == "rbracket"
Quote == "quote"
Word == "word"
Slashes == "slashes"
CommentOpen == "comment_open"
CommentClose == "comment_close"

\* the text of a JSON string literal: anything but a quote or a raw newline
StringTokens == {Word, Slashes, CommentOpen, CommentClose}
PreambleTokens == {Word, LBrace}
TrailingTokens == {Word, RBrace, RBracket}

RECURSIVE lstrip(_)
lstrip(text) ==
    IF text # <<>> /\ Head(text) = Newline THEN lstrip(Tail(text)) ELSE text

RECURSIVE rstrip(_)
rstrip(text) ==
    IF text # <<>> /\ text[Len(text)] = Newline
    THEN rstrip(SubSeq(text, 1, Len(text) - 1))
    ELSE text

strip(text) == rstrip(lstrip(text))

\* str.startswith on the two fence openers: the longer one begins with the
\* shorter one
startswith(text, prefix) ==
    /\ text # <<>>
    /\ \/ text[1] = prefix
       \/ prefix = Fence /\ text[1] = FenceJson

endswith(text, suffix) == text # <<>> /\ text[Len(text)] = suffix

\* str.find and str.rfind: 0-based position, -1 when absent
find(text, c) ==
    LET hits == {i \in 1..Len(text) : text[i] = c}
    IN  IF hits = {} THEN -1
        ELSE (CHOOSE i \in hits : \A j \in hits : i <= j) - 1

rfind(text, c) ==
    LET hits == {i \in 1..Len(text) : text[i] = c}
    IN  IF hits = {} THEN -1
        ELSE (CHOOSE i \in hits : \A j \in hits : i >= j) - 1

\* text[start:] and text[:stop] with 0-based non-negative bounds
SliceFrom(text, start) == SubSeq(text, start + 1, Len(text))
SliceTo(text, stop) == SubSeq(text, 1, Min(stop, Len(text)))

RemoveFences(text) ==
    LET opened == IF startswith(text, FenceJson) THEN SliceFrom(text, 1)
                  ELSE IF startswith(text, Fence) THEN SliceFrom(text, 1)
                  ELSE text
        closed == IF endswith(opened, Fence)
                  THEN SliceTo(opened, Len(opened) - 1)
                  ELSE opened
    IN  strip(closed)

CutToJson(text) ==
    LET brace == find(text, LBrace)
        bracket == find(text, LBracket)
        from == IF brace > 0 THEN SliceFrom(text, brace)
                ELSE IF brace < 0 /\ bracket > 0 THEN SliceFrom(text, bracket)
                ELSE text
        json_end == Max(rfind(from, RBrace), rfind(from, RBracket))
    IN  IF json_end > 0 THEN SliceTo(from, json_end + 1) ELSE from

\* the first re.sub: from a double slash up to, not including, the newline
RECURSIVE SkipLine(_)
SkipLine(text) ==
    IF text = <<>> \/ Head(text) = Newline THEN text ELSE SkipLine(Tail(text))

RECURSIVE RemoveLineComments(_)
RemoveLineComments(text) ==
    IF text = <<>> THEN <<>>
    ELSE IF Head(text) = Slashes THEN RemoveLineComments(SkipLine(Tail(text)))
    ELSE <<Head(text)>> \o RemoveLineComments(Tail(text))

\* the second re.sub (non-greedy, DOTALL): from a comment opener through the
\* nearest closer after it; an opener that is never closed stays
RECURSIVE RemoveBlockComments(_)
RemoveBlockComments(text) ==
    IF text = <<>> THEN <<>>
    ELSE IF Head(text) = CommentOpen /\ find(Tail(text), CommentClose) >= 0
    THEN RemoveBlockComments(SliceFrom(Tail(text), find(Tail(text), CommentClose) + 1))
    ELSE <<Head(text)>> \o RemoveBlockComments(Tail(text))

\* json.loads on an object literal abridged to its braces around one string
\* literal: the value is the text of the string; anything else is a
\* JSONDecodeError
NoJson == [ok |-> FALSE, value |-> <<>>]

json_loads(text) ==
    LET t == strip(text)
        n == Len(t)
    IN  IF /\ n >= 4
           /\ t[1] = LBrace /\ t[2] = Quote /\ t[n - 1] = Quote /\ t[n] = RBrace
           /\ \A i \in 3..(n - 2) : t[i] \notin {Quote, Newline}
        THEN [ok |-> TRUE, value |-> SubSeq(t, 3, n - 2)]
        ELSE NoJson

extract_json_from_llm_response(text) ==
    json_loads(RemoveBlockComments(RemoveLineComments(
        CutToJson(RemoveFences(strip(text))))))

\* a JSON object, in fences, with a preamble and trailing text
JsonObject(content) == <<LBrace, Quote>> \o content \o <<Quote, RBrace>>

Wrapped(preamble, opener, content, trailing) ==
    preamble \o <<opener, Newline>> \o JsonObject(content)
             \o <<Newline, Fence>> \o trailing

IdleJson ==
    /\ jx_text = <<>>
    /\ jx_raw = <<>>
    /\ jx_pc = "idle"
    /\ jx_out = NoJson
    /\ jx_raised = FALSE

InitJson ==
    \E preamble \in SeqUpTo(PreambleTokens, MaxPreamble),
       opener \in {FenceJson, Fence},
       content \in SeqUpTo(StringTokens, MaxContent),
       trailing \in SeqUpTo(TrailingTokens, MaxTrailing) :
        /\ jx_text = Wrapped(preamble, opener, content, trailing)
        /\ jx_raw = JsonObject(content)
        /\ jx_pc = "start"
        /\ jx_out = NoJson
        /\ jx_raised = FALSE

ExtractReturns ==
    /\ jx_pc = "start"
    /\ extract_json_from_llm_response(jx_text).ok
    /\ jx_out' = extract_json_from_llm_response(jx_text)
    /\ jx_pc' = "done"
    /\ UNCHANGED <<jx_text, jx_raw, jx_raised, jsonFrame>>

ExtractRaises ==
    /\ jx_pc = "start"
    /\ ~extract_json_from_llm_response(jx_text).ok
    /\ jx_raised' = TRUE
    /\ jx_pc' = "done"
    /\ UNCHANGED <<jx_text, jx_raw, jx_out, jsonFrame>>

NextJson == ExtractReturns \/ ExtractRaises

\* ------------------------------------------------- MockLLMClient, called twice
\* the two prompts an agent function can send
Prompts == {"first", "retry"}

AgentFunctions == {"planner", "specialist", "aggregator"}

ResponsesOf(agent_name) ==
    CASE agent_name = "planner" -> PlannerResponses
      [] agent_name = "specialist" -> SpecialistResponses
      [] OTHER -> AggregatorResponses

\* a well-formed response of each agent
MockObject(agent_name) ==
    CASE agent_name = "planner" ->
            [kind |-> "object", selected_specialties |-> <<"cardiology">>,
             scored_catalog |-> <<>>]
      [] agent_name = "specialist" ->
            [kind |-> "object", specialty_id |-> "cardiology", differential |-> <<60>>]
      [] OTHER ->
            [kind |-> "object", final_answer |-> "B", ordered_differential |-> <<60>>]

\* mock_responses: a key that occurs in both prompts gives the corrective
\* prompt the response of the first one; otherwise the corrective prompt has a
\* response of its own
MockResponses(agent_name) ==
    {m \in [Prompts -> ResponsesOf(agent_name)] :
        \/ m["retry"] = m["first"]
        \/ m["retry"] = MockObject(agent_name)
        \/ m["retry"].kind \in {"transport", "no_json"}}

NoMock == [p \in Prompts |-> MockObject("aggregator")]

\* MockLLMClient.complete with the call counter consulted for the response
complete_ByCallCount(responses, call_count, prompt) ==
    IF call_count >= 2 THEN responses["retry"] ELSE responses[prompt]

\* MockLLMClient.complete: the response depends on the prompt alone
complete(responses, call_count, prompt) == responses[prompt]

\* the arguments of the function that is called twice
StartOf(agent_name) ==
    [pc |-> CASE agent_name = "planner" -> "planner"
              [] agent_name = "specialist" -> "specialists"
              [] OTHER -> "aggregator",
     selected_specialties |->
        IF agent_name = "planner" THEN <<>> ELSE <<"cardiology">>,
     case |-> IF agent_name = "aggregator"
              THEN [NewCase EXCEPT !.specialist_reports =
                        <<ReportOf("cardiology", MockObject("specialist"))>>]
              ELSE NewCase]

\* what a call of the function produced: the parsed result or the exception
Outcome ==
    [planner_result |-> planner_result,
     planner_path |-> planner_path,
     results |-> results,
     consult_ok |-> consult_ok,
     final_decision |-> case.final_decision,
     raised |-> raised]

NoOutcome ==
    [planner_result |-> NoResult, planner_path |-> "none", results |-> <<>>,
     consult_ok |-> <<>>, final_decision |-> NoDecision, raised |-> None]

\* the function has returned or raised
Finished ==
    CASE det_agent = "planner" -> pc \in {"specialists", "failed"}
      [] det_agent = "specialist" -> pc = "failed" \/ idx > 1
      [] det_agent = "aggregator" -> pc \in {"returned", "failed"}
      [] OTHER -> FALSE

IdleMock ==
    /\ det_agent = None
    /\ mock_responses = NoMock
    /\ mock_call_count = 0
    /\ det_run = 0
    /\ det_first = NoOutcome

InitMock ==
    /\ det_agent \in AgentFunctions
    /\ mock_responses \in MockResponses(det_agent)
    /\ mock_call_count = 0
    /\ det_run = 1
    /\ det_first = NoOutcome
    /\ config \in {[DefaultConfig EXCEPT !.max_retries = n] : n \in {0, 1}}
    /\ pc = StartOf(det_agent).pc
    /\ planner_result = NoResult
    /\ planner_path = "none"
    /\ selected_specialties = StartOf(det_agent).selected_specialties
    /\ idx = 1
    /\ results = <<>>
    /\ consult_ok = <<>>
    /\ case = StartOf(det_agent).case
    /\ trace = NoCaseTrace
    /\ raised = None
    /\ warned = FALSE
    /\ agent = [name |-> None, calls |-> 0, first |-> "none", last |-> "none"]
    /\ transport_seen = {}

MockCalled ==
    /\ ~Finished
    /\ mock_call_count' = mock_call_count + 1
    /\ UNCHANGED <<det_agent, mock_responses, det_run, det_first, mockFrame>>

MockPlannerFirstCall ==
    /\ det_agent = "planner"
    /\ PlannerFirstCallOn({complete(mock_responses, mock_call_count, "first")})
    /\ MockCalled

MockPlannerRetryCall ==
    /\ det_agent = "planner"
    /\ PlannerRetryCallOn({complete(mock_responses, mock_call_count, "retry")})
    /\ MockCalled

MockSpecialistFirstCall ==
    /\ det_agent = "specialist"
    /\ SpecialistFirstCallOn({complete(mock_responses, mock_call_count, "first")})
    /\ MockCalled

MockSpecialistRetryCall ==
    /\ det_agent = "specialist"
    /\ SpecialistRetryCallOn({complete(mock_responses, mock_call_count, "retry")})
    /\ MockCalled

MockAggregatorFirstCall ==
    /\ det_agent = "aggregator"
    /\ AggregatorFirstCallOn({complete(mock_responses, mock_call_count, "first")})
    /\ MockCalled

MockAggregatorRetryCall ==
    /\ det_agent = "aggregator"
    /\ AggregatorRetryCallOn({complete(mock_responses, mock_call_count, "retry")})
    /\ MockCalled

\* the same function is called again with the same arguments and the same
\* client
CallAgain ==
    /\ det_run = 1
    /\ Finished
    /\ det_first' = Outcome
    /\ det_run' = 2
    /\ pc' = StartOf(det_agent).pc
    /\ planner_result' = NoResult
    /\ planner_path' = "none"
    /\ selected_specialties' = StartOf(det_agent).selected_specialties
    /\ idx' = 1
    /\ results' = <<>>
    /\ consult_ok' = <<>>
    /\ case' = StartOf(det_agent).case
    /\ trace' = NoCaseTrace
    /\ raised' = None
    /\ warned' = FALSE
    /\ agent' = [name |-> None, calls |-> 0, first |-> "none", last |-> "none"]
    /\ transport_seen' = {}
    /\ UNCHANGED <<config, det_agent, mock_responses, mock_call_count, mockFrame>>

NextMock ==
    \/ MockPlannerFirstCall
    \/ MockPlannerRetryCall
    \/ MockSpecialistFirstCall
    \/ MockSpecialistRetryCall
    \/ MockAggregatorFirstCall
    \/ MockAggregatorRetryCall
    \/ CallAgain

\* ------------------------------------------------------------ normalize_answer
\* An answer is a sequence of characters. The inputs are built from a few
\* pieces: option letters, punctuation, a blank, a digit and words.
MaxPieces == 4

Lowers == <<"a", "b", "c", "d", "e", "h", "i", "n", "o", "r", "s", "w", "x">>
Uppers == <<"A", "B", "C", "D", "E", "H", "I", "N", "O", "R", "S", "W", "X">>

Letters == Range(Lowers) \cup Range(Uppers)
Whitespace == {" "}

\* str.upper and str.lower on one character
Upper(c) ==
    IF \E k \in 1..Len(Lowers) : Lowers[k] = c
    THEN Uppers[CHOOSE k \in 1..Len(Lowers) : Lowers[k] = c]
    ELSE c

Lower(c) ==
    IF \E k \in 1..Len(Uppers) : Uppers[k] = c
    THEN Lowers[CHOOSE k \in 1..Len(Uppers) : Uppers[k] = c]
    ELSE c

Pieces ==
    {<<"A">>, <<"b">>, <<"B">>, <<".">>, <<":">>, <<" ">>, <<"1">>,
     <<"A", "n", "s", "w", "e", "r">>, <<"d", "x">>}

RECURSIVE Concat(_)
Concat(ps) == IF ps = <<>> THEN <<>> ELSE Head(ps) \o Concat(Tail(ps))

AnswerTexts == {Concat(ps) : ps \in SeqUpTo(Pieces, MaxPieces)}

\* the answer "UNKNOWN"
UNKNOWN == <<"U", "N", "K", "N", "O", "W", "N">>

RECURSIVE TrimLeft(_)
TrimLeft(s) == IF s # <<>> /\ Head(s) \in Whitespace THEN TrimLeft(Tail(s)) ELSE s

RECURSIVE TrimRight(_)
TrimRight(s) ==
    IF s # <<>> /\ s[Len(s)] \in Whitespace
    THEN TrimRight(SubSeq(s, 1, Len(s) - 1))
    ELSE s

\* answer.strip()
Trim(s) == TrimRight(TrimLeft(s))

NoMatch == <<>>

\* re.match of a letter followed by a dot, a closing parenthesis or a colon
LetterPunct(s) ==
    IF Len(s) >= 2 /\ s[1] \in Letters /\ s[2] \in {".", ")", ":"}
    THEN <<s[1]>> ELSE NoMatch

KeyWords == {<<"a", "n", "s", "w", "e", "r">>, <<"c", "h", "o", "i", "c", "e">>}

\* the characters the class after the key word accepts, case ignored
Filler == Whitespace \cup {":", "i", "s", "I", "S"}

\* re.IGNORECASE dropped from the search
WordAt_CaseSensitive(s, p) ==
    \E w \in KeyWords : p + Len(w) - 1 <= Len(s) /\ SubSeq(s, p, p + Len(w) - 1) = w

\* "answer" or "choice" starts at position p, case ignored
WordAt(s, p) ==
    \E w \in KeyWords :
        /\ p + Len(w) - 1 <= Len(s)
        /\ [k \in 1..Len(w) |-> Lower(s[p + k - 1])] = w

\* after the key word at p (both key words have six characters): k filler
\* characters, a letter, then a blank, a dot or the end of the answer
LetterAfter(s, p, k) ==
    LET q == p + 6
    IN  /\ q + k <= Len(s)
        /\ \A j \in q..(q + k - 1) : s[j] \in Filler
        /\ s[q + k] \in Letters
        /\ (q + k = Len(s) \/ s[q + k + 1] \in Whitespace \cup {"."})

\* re.search(..., re.IGNORECASE): leftmost key word that can be completed,
\* with the longest run of filler characters
KeyWordLetter(s) ==
    LET starts == {p \in 1..Len(s) :
                      WordAt(s, p) /\ \E k \in 0..Len(s) : LetterAfter(s, p, k)}
    IN  IF starts = {} THEN NoMatch
        ELSE LET p == CHOOSE x \in starts : \A y \in starts : x <= y
                 ks == {k \in 0..Len(s) : LetterAfter(s, p, k)}
                 k == CHOOSE x \in ks : \A y \in ks : x >= y
             IN  <<s[p + 6 + k]>>

\* re.match of a letter followed by whitespace
LetterSpace(s) ==
    IF Len(s) >= 2 /\ s[1] \in Letters /\ s[2] \in Whitespace
    THEN <<s[1]>> ELSE NoMatch

\* the last resort: the first alphabetic character, else the answer itself
FirstLetter(s) ==
    LET hits == {j \in 1..Len(s) : s[j] \in Letters}
    IN  IF hits = {} THEN s
        ELSE <<Upper(s[CHOOSE j \in hits : \A l \in hits : j <= l])>>

\* normalize_answer after its test for an empty answer
ExtractLetter(answer) ==
    LET s == Trim(answer)
    IN  IF Len(s) = 1 /\ s[1] \in Letters THEN <<Upper(s[1])>>
        ELSE IF LetterPunct(s) # NoMatch THEN <<Upper(LetterPunct(s)[1])>>
        ELSE IF KeyWordLetter(s) # NoMatch THEN <<Upper(KeyWordLetter(s)[1])>>
        ELSE IF LetterSpace(s) # NoMatch THEN <<Upper(LetterSpace(s)[1])>>
        ELSE FirstLetter(s)

\* the scripts that define normalize_answer
NormalizeScripts == {"run_baseline_comparison", "test_independent_multi_agent"}

normalize_answer(s, answer) ==
    IF answer = <<>>
    THEN (IF s = "run_baseline_comparison" THEN <<>> ELSE UNKNOWN)
    ELSE ExtractLetter(answer)

IdleNorm ==
    /\ na_script = None
    /\ na_answer = <<>>
    /\ na_pc = "idle"
    /\ na_out = <<>>

InitNorm ==
    /\ na_script \in NormalizeScripts
    /\ na_answer \in AnswerTexts
    /\ na_pc = "start"
    /\ na_out = <<>>

Normalize(s) ==
    /\ na_pc = "start"
    /\ na_script = s
    /\ na_out' = normalize_answer(s, na_answer)
    /\ na_pc' = "done"
    /\ UNCHANGED <<na_script, na_answer>>

NormalizeInComparison ==
    /\ Normalize("run_baseline_comparison")
    /\ UNCHANGED normFrame

NormalizeInTestScript ==
    /\ Normalize("test_independent_multi_agent")
    /\ UNCHANGED normFrame

NextNorm == NormalizeInComparison \/ NormalizeInTestScript

\* ---------------------------------------- independent_multi_agent_majority.py
\* A free-text response is a sequence of words; an option letter standing
\* alone is the word "A" .. "D", anything else is "w".
OptionLetters == {"A", "B", "C", "D"}

ResponseTexts == {<<>>, <<"w">>, <<"A">>, <<"B">>, <<"w", "B">>, <<"C", "A">>}

\* tokens_used of one response
TokenCounts == {100, 150}

\* _extract_answer: the first option letter standing alone, else "UNKNOWN"
_extract_answer(text) ==
    LET hits == {j \in 1..Len(text) : text[j] \in OptionLetters}
    IN  IF hits = {} THEN "UNKNOWN"
        ELSE text[CHOOSE j \in hits : \A l \in hits : j <= l]

\* select_specialists: the catalog names found on the first three lines of
\* the response, filled up from the fallback list
MaxLines == 3

Fallback == <<"Emergency Medicine", "Internal Medicine", "Family Medicine">>

SpecialistsFrom(named) ==
    LET specialists == [k \in 1..named |-> "Cardiology"]
        filled == IF Len(specialists) < MaxLines
                  THEN specialists \o SubSeq(Fallback, 1, MaxLines - Len(specialists))
                  ELSE specialists
    IN  SubSeq(filled, 1, Min(MaxLines, Len(filled)))

\* Counter(answers).most_common(1)[0][1]
MostCommonCount(answers) ==
    Max(0, CHOOSE n \in 0..Len(answers) :
               /\ \A a \in Range(answers) :
                      Cardinality({k \in 1..Len(answers) : answers[k] = a}) <= n
               /\ (answers # <<>> =>
                      \E a \in Range(answers) :
                          Cardinality({k \in 1..Len(answers) : answers[k] = a}) = n))

MostCommon(answers) ==
    CHOOSE a \in Range(answers) :
        Cardinality({k \in 1..Len(answers) : answers[k] = a}) = MostCommonCount(answers)

\* only a unanimous vote counts as a majority
HasMajority_Unanimous(answers) == answers # <<>> /\ MostCommonCount(answers) >= 3

\* most_common and most_common[0][1] >= 2
HasMajority(answers) == answers # <<>> /\ MostCommonCount(answers) >= 2

\* no client class defines _last_response_tokens
HasLastResponseTokens == FALSE

NoMajResult ==
    [answer |-> None, decision_method |-> None, tokens_used |-> 0, num_llm_calls |-> 0]

\* the dict returned by run_independent_multi_agent_majority
MajorityResult(final_answer, decision_method, calls) ==
    LET num_llm_calls == IF decision_method = "synthesis" THEN 5 ELSE 4
        total_tokens == IF HasLastResponseTokens
                        THEN calls[Len(calls)] * num_llm_calls
                        ELSE 0
    IN  [answer |-> final_answer, decision_method |-> decision_method,
         tokens_used |-> total_tokens, num_llm_calls |-> num_llm_calls]

IdleMajority ==
    /\ maj_pc = "idle"
    /\ maj_specialists = <<>>
    /\ maj_agent_responses = <<>>
    /\ maj_synthesis_text = <<>>
    /\ maj_calls = <<>>
    /\ maj_result = NoMajResult

InitMajority ==
    /\ maj_pc = "select"
    /\ maj_specialists = <<>>
    /\ maj_agent_responses = <<>>
    /\ maj_synthesis_text = <<>>
    /\ maj_calls = <<>>
    /\ maj_result = NoMajResult

\* step 1: select_specialists, one model call
SelectSpecialists ==
    /\ maj_pc = "select"
    /\ \E named \in 0..MaxLines, tokens \in TokenCounts :
        /\ maj_specialists' = SpecialistsFrom(named)
        /\ maj_calls' = Append(maj_calls, tokens)
    /\ maj_pc' = "agents"
    /\ UNCHANGED <<maj_agent_responses, maj_synthesis_text, maj_result, majFrame>>

\* step 2: agent_independent_analysis of the next specialist, one model call
AgentAnalysis ==
    /\ maj_pc = "agents"
    /\ Len(maj_agent_responses) < Len(maj_specialists)
    /\ \E text \in ResponseTexts, tokens \in TokenCounts :
        /\ maj_agent_responses' = Append(maj_agent_responses, _extract_answer(text))
        /\ maj_calls' = Append(maj_calls, tokens)
    /\ UNCHANGED <<maj_pc, maj_specialists, maj_synthesis_text, maj_result, majFrame>>

\* step 3 with a majority: no model call, then the result dict
DecideByMajority ==
    /\ maj_pc = "agents"
    /\ Len(maj_agent_responses) = Len(maj_specialists)
    /\ HasMajority(maj_agent_responses)
    /\ maj_result' = MajorityResult(MostCommon(maj_agent_responses), "majority", maj_calls)
    /\ maj_pc' = "done"
    /\ UNCHANGED <<maj_specialists, maj_agent_responses, maj_synthesis_text, maj_calls,
                   majFrame>>

\* step 3 without a majority: the synthesis call, then the result dict
DecideBySynthesis ==
    /\ maj_pc = "agents"
    /\ Len(maj_agent_responses) = Len(maj_specialists)
    /\ ~HasMajority(maj_agent_responses)
    /\ \E text \in ResponseTexts, tokens \in TokenCounts :
        /\ maj_synthesis_text' = text
        /\ maj_calls' = Append(maj_calls, tokens)
        /\ maj_result' = MajorityResult(_extract_answer(text), "synthesis",
                                        Append(maj_calls, tokens))
    /\ maj_pc' = "done"
    /\ UNCHANGED <<maj_specialists, maj_agent_responses, majFrame>>

NextMajority ==
    \/ SelectSpecialists
    \/ AgentAnalysis
    \/ DecideByMajority
    \/ DecideBySynthesis

\* --------------------------------------------------- run_experiment_queue.py
\* Configs are numbered in the order they arrive in the queue directory (their
\* creation time). Time is counted in seconds.
MaxConfigs == 2

check_interval == 30
idle_timeout == 300
PauseAfterExperiment == 5

\* how long an experiment runs
Durations == {10, 400}

\* how run_experiment ends
RunOutcomes == {"returncode_0", "returncode_1", "crashed", "load_failed"}

\* result.returncode != 0 counted as a success too
Succeeded_AnyReturnCode(outcome) == outcome \in {"returncode_0", "returncode_1"}

\* run_experiment returns True
Succeeded(outcome) == outcome = "returncode_0"

NoConfig == 0

IdleQueue ==
    /\ rq_pc = "idle"
    /\ stop_when_empty = FALSE
    /\ rq_queue = <<>>
    /\ rq_arrived = 0
    /\ rq_current = NoConfig
    /\ rq_completed = {}
    /\ rq_failed = {}
    /\ rq_outcome = <<>>
    /\ rq_idle_time = 0
    /\ rq_empty_for = 0

\* ExperimentQueue.__init__ and the head of run_queue; configs may already
\* wait in the queue directory
InitQueue ==
    /\ rq_pc = "check"
    /\ stop_when_empty \in BOOLEAN
    /\ rq_arrived \in 0..1
    /\ rq_queue = [k \in 1..rq_arrived |-> k]
    /\ rq_current = NoConfig
    /\ rq_completed = {}
    /\ rq_failed = {}
    /\ rq_outcome = <<>>
    /\ rq_idle_time = 0
    /\ rq_empty_for = 0

\* get_next_experiment: the oldest config of the queue directory
get_next_experiment(queue) == IF queue = <<>> THEN NoConfig ELSE Head(queue)

Without(queue, c) == SelectSeq(queue, LAMBDA x : x # c)

\* someone puts a new config into the queue directory
ConfigArrives ==
    /\ rq_pc \in {"check", "running"}
    /\ rq_arrived < MaxConfigs
    /\ rq_arrived' = rq_arrived + 1
    /\ rq_queue' = Append(rq_queue, rq_arrived + 1)
    /\ rq_empty_for' = 0
    /\ UNCHANGED <<rq_pc, stop_when_empty, rq_current, rq_completed, rq_failed,
                   rq_outcome, rq_idle_time, queueFrame>>

\* the next config fails validate_config: move_to_failed and continue
SkipInvalid ==
    /\ rq_pc = "check"
    /\ get_next_experiment(rq_queue) # NoConfig
    /\ LET next_config == get_next_experiment(rq_queue)
       IN  /\ rq_outcome' = Append(rq_outcome, [config |-> next_config, outcome |-> "invalid"])
           /\ rq_failed' = rq_failed \cup {next_config}
           /\ rq_queue' = Without(rq_queue, next_config)
    /\ rq_idle_time' = 0
    /\ rq_empty_for' = 0
    /\ UNCHANGED <<rq_pc, stop_when_empty, rq_arrived, rq_current, rq_completed,
                   queueFrame>>

\* the next config passes validate_config: run_experiment starts
StartExperiment ==
    /\ rq_pc = "check"
    /\ get_next_experiment(rq_queue) # NoConfig
    /\ rq_current' = get_next_experiment(rq_queue)
    /\ rq_idle_time' = 0
    /\ rq_pc' = "running"
    /\ UNCHANGED <<stop_when_empty, rq_queue, rq_arrived, rq_completed, rq_failed,
                   rq_outcome, rq_empty_for, queueFrame>>

\* run_experiment returns; the config is moved and the runner pauses
FinishExperiment ==
    /\ rq_pc = "running"
    /\ \E outcome \in RunOutcomes, duration \in Durations :
        /\ rq_outcome' = Append(rq_outcome, [config |-> rq_current, outcome |-> outcome])
        /\ IF Succeeded(outcome)
           THEN /\ rq_completed' = rq_completed \cup {rq_current}
                /\ UNCHANGED rq_failed
           ELSE /\ rq_failed' = rq_failed \cup {rq_current}
                /\ UNCHANGED rq_completed
        /\ rq_idle_time' = rq_idle_time + duration + PauseAfterExperiment
    /\ rq_queue' = Without(rq_queue, rq_current)
    /\ rq_empty_for' = IF Without(rq_queue, rq_current) = <<>> THEN PauseAfterExperiment ELSE 0
    /\ rq_current' = NoConfig
    /\ rq_pc' = "check"
    /\ UNCHANGED <<stop_when_empty, rq_arrived, queueFrame>>

\* the queue is empty: leave the loop, or sleep for check_interval
QueueEmpty ==
    /\ rq_pc = "check"
    /\ get_next_experiment(rq_queue) = NoConfig
    /\ IF stop_when_empty \/ rq_idle_time > idle_timeout
       THEN /\ rq_pc' = "stopped"
            /\ UNCHANGED <<rq_idle_time, rq_empty_for>>
       ELSE /\ rq_idle_time' = rq_idle_time + check_interval
            /\ rq_empty_for' = rq_empty_for + check_interval
            /\ UNCHANGED rq_pc
    /\ UNCHANGED <<stop_when_empty, rq_queue, rq_arrived, rq_current, rq_completed,
                   rq_failed, rq_outcome, queueFrame>>

\* Ctrl+C
KeyboardInterrupt ==
    /\ rq_pc \in {"check", "running"}
    /\ rq_pc' = "interrupted"
    /\ UNCHANGED <<stop_when_empty, rq_queue, rq_arrived, rq_current, rq_completed,
                   rq_failed, rq_outcome, rq_idle_time, rq_empty_for, queueFrame>>

NextQueue ==
    \/ ConfigArrives
    \/ SkipInvalid
    \/ StartExperiment
    \/ FinishExperiment
    \/ QueueEmpty
    \/ KeyboardInterrupt

\* ------------------------------------------------- resuming from a checkpoint
\* the scripts that load checkpoint.json when they start
ResumeScripts == {"test_graph_of_thoughts", "test_progressive_temperature_parallel"}

IdleResume ==
    /\ rs_run = 0
    /\ start_idx = 0
    /\ rs_checkpoint_at = 0
    /\ rs_evaluated = {}

\* the first run starts without a checkpoint file
InitResume ==
    /\ rs_run = 1
    /\ start_idx = 0
    /\ rs_checkpoint_at = 0
    /\ rs_evaluated = {}
    /\ script \in ResumeScripts
    /\ dataset_len \in DatasetLengths(script) \ {0}
    /\ batch_pc = "loop"
    /\ batch_i = 0
    /\ batch_results = EmptyResults(script)
    /\ batch_raised = {}
    /\ checkpoint = NoCheckpoint

\* one question of the first run, evaluated or raising
FirstRunQuestion ==
    /\ rs_run = 1
    /\ \E errs \in SUBSET Methods(script), exc \in BatchExceptions :
        /\ BatchQuestion(errs, exc)
        /\ rs_checkpoint_at' =
              IF WritesCheckpoint(script, batch_i + 1, dataset_len, errs)
              THEN batch_i + 1 ELSE rs_checkpoint_at
    /\ UNCHANGED <<rs_run, start_idx, rs_evaluated, resumeFrame>>

\* results = json.load(f); start_idx = len(results)
StartIdxOf(ckpt) ==
    IF ckpt.exists THEN Len(ckpt.results["results"]) ELSE 0

\* the run ends or is killed, and the script is started again on the same
\* output directory
StartAgain ==
    /\ rs_run = 1
    /\ rs_run' = 2
    /\ start_idx' = StartIdxOf(checkpoint)
    /\ batch_results' = IF checkpoint.exists THEN checkpoint.results
                        ELSE EmptyResults(script)
    /\ batch_i' = 0
    /\ batch_pc' = "loop"
    /\ UNCHANGED <<script, dataset_len, batch_raised, checkpoint, rs_checkpoint_at,
                   rs_evaluated, resumeFrame>>

\* "Skip already processed questions"
SkipQuestion ==
    /\ rs_run = 2
    /\ batch_pc = "loop"
    /\ batch_i < dataset_len
    /\ batch_i < start_idx
    /\ batch_i' = batch_i + 1
    /\ UNCHANGED <<script, dataset_len, batch_pc, batch_results, batch_raised, checkpoint,
                   rs_run, start_idx, rs_checkpoint_at, rs_evaluated, resumeFrame>>

\* one question of the second run, evaluated or raising
SecondRunQuestion ==
    /\ rs_run = 2
    /\ batch_i >= start_idx
    /\ \E errs \in SUBSET Methods(script), exc \in BatchExceptions :
        BatchQuestion(errs, exc)
    /\ rs_evaluated' = rs_evaluated \cup {batch_i + 1}
    /\ UNCHANGED <<rs_run, start_idx, rs_checkpoint_at, resumeFrame>>

NextResume ==
    \/ FirstRunQuestion
    \/ StartAgain
    \/ SkipQuestion
    \/ SecondRunQuestion

\* ---------------------------------------------------- run_batch_experiments.py
MaxExperiments == 3

\* an experiment of the batch file: does it pass validate_experiments
BatchFiles == SeqUpTo(BOOLEAN, MaxExperiments)

\* the status run_experiment records
ExperimentStatuses == {"success", "failed", "error"}

\* validate_experiments: at least one experiment, and every one well-formed
validate_experiments(experiments) ==
    /\ experiments # <<>>
    /\ \A k \in 1..Len(experiments) : experiments[k]

\* the loop is never left early
LeavesLoop_Never(success, continue) == FALSE

\* if not success and not continue_on_error: break
LeavesLoop(success, continue) == ~success /\ ~continue

IdleExperiments ==
    /\ be_pc = "idle"
    /\ be_experiments = <<>>
    /\ continue_on_error = TRUE
    /\ dry_run = FALSE
    /\ be_started = <<>>
    /\ be_results = <<>>

\* ExperimentRunner.__init__ and main
InitExperiments ==
    /\ be_pc = "validate"
    /\ be_experiments \in BatchFiles
    /\ continue_on_error \in BOOLEAN
    /\ dry_run \in BOOLEAN
    /\ be_started = <<>>
    /\ be_results = <<>>

\* the head of run_all: validation passes, or the run is aborted
ValidateBatch ==
    /\ be_pc = "validate"
    /\ be_pc' = IF validate_experiments(be_experiments) THEN "loop" ELSE "aborted"
    /\ UNCHANGED <<be_experiments, continue_on_error, dry_run, be_started, be_results,
                   experimentsFrame>>

\* one iteration of the loop of run_all: run_experiment on the next
\* experiment, then the test for leaving the loop
RunNextExperiment ==
    /\ be_pc = "loop"
    /\ Len(be_started) < Len(be_experiments)
    /\ LET i == Len(be_started) + 1
       IN  \E status \in ExperimentStatuses :
             /\ dry_run => status = "success"
             /\ be_started' = Append(be_started, i)
             /\ be_results' = IF dry_run THEN be_results ELSE Append(be_results, status)
             /\ be_pc' = IF LeavesLoop(status = "success", continue_on_error)
                         THEN "done" ELSE "loop"
    /\ UNCHANGED <<be_experiments, continue_on_error, dry_run, experimentsFrame>>

\* the loop is exhausted: print_summary and return
AllExperimentsRun ==
    /\ be_pc = "loop"
    /\ Len(be_started) = Len(be_experiments)
    /\ be_pc' = "done"
    /\ UNCHANGED <<be_experiments, continue_on_error, dry_run, be_started, be_results,
                   experimentsFrame>>

NextExperiments ==
    \/ ValidateBatch
    \/ RunNextExperiment
    \/ AllExperimentsRun

\* ------------------------------------ baselines/answer_space_consultation.py
MaxListed == 2

MaxTokens == 2

\* what the generalist can list under SPECIALISTS TO CONSULT: two ids of the
\* catalog and one name that is not in it
ListedNames == {"cardiology", "pulmonology", "herbalist"}

AnalysisTexts == SeqUpTo(ListedNames, MaxListed)

\* the pieces of a response the patterns of _extract_answer tell apart: a
\* labelled answer, a capital letter standing alone, and text without either
AnswerLabels == {"FINAL ANSWER:", "ANSWER:", "BEST ANSWER:", "CORRECTED ANSWER:"}

NoLetter == "-"

ConsultTokens ==
    {[kind |-> "FINAL ANSWER:", letter |-> "A"],
     [kind |-> "ANSWER:", letter |-> "B"],
     [kind |-> "BEST ANSWER:", letter |-> "A"],
     [kind |-> "CORRECTED ANSWER:", letter |-> "B"],
     [kind |-> "letter", letter |-> "A"],
     [kind |-> "word", letter |-> NoLetter],
     [kind |-> "VERDICT: OVERRIDE", letter |-> NoLetter],
     [kind |-> "DEFER TO:", letter |-> NoLetter]}

ConsultTexts == SeqUpTo(ConsultTokens, MaxTokens)

\* re.search(pattern, text) for a pattern matching the tokens of `kinds`:
\* the letter of the leftmost match, NoLetter without a match
SearchLetter(kinds, text) ==
    LET hits == {j \in 1..Len(text) : text[j].kind \in kinds}
    IN  IF hits = {} THEN NoLetter
        ELSE text[CHOOSE j \in hits : \A l \in hits : j <= l].letter

\* the tokens each pattern of _extract_answer matches, in the order tried;
\* the second pattern has no anchor, so it matches every labelled answer
Patterns ==
    <<{"FINAL ANSWER:"},
      AnswerLabels,
      {"BEST ANSWER:"},
      {"CORRECTED ANSWER:"},
      AnswerLabels \cup {"letter"}>>

RECURSIVE FirstPattern(_, _)
FirstPattern(k, text) ==
    IF k > Len(Patterns) THEN "UNKNOWN"
    ELSE IF SearchLetter(Patterns[k], text) # NoLetter
         THEN SearchLetter(Patterns[k], text)
         ELSE FirstPattern(k + 1, text)

\* _extract_answer of answer_space_consultation.py
asc_extract_answer(text) == FirstPattern(1, text)

RECURSIVE Distinct(_)
\* the listed names in order, each once
Distinct(names) ==
    IF names = <<>> THEN <<>>
    ELSE LET front == Distinct(SubSeq(names, 1, Len(names) - 1))
             last == names[Len(names)]
         IN  IF \E j \in 1..Len(front) : front[j] = last
             THEN front ELSE Append(front, last)

\* the specialists _analyze_answer_space returns: the listed names, ids of
\* the catalog or not, without repetition, at most three, and the fallback
\* pair when none was parsed
ParsedSpecialists(listed) ==
    LET parsed == Distinct(listed)
        chosen == IF parsed = <<>> THEN <<"cardiology", "pulmonology">> ELSE parsed
    IN  SubSeq(chosen, 1, IF Len(chosen) < 3 THEN Len(chosen) ELSE 3)

\* other_answers = ["A", "B", "C", "D"]; other_answers.remove(initial_answer)
\* raises ValueError for a value that is not in the list
CanRemove(initial_answer) == initial_answer \in {"A", "B", "C", "D"}

\* "DEFER TO:" in challenge_response.content.upper()
Deferred(text) == \E j \in 1..Len(text) : text[j].kind = "DEFER TO:"

\* "OVERRIDE" in content and "VERDICT: OVERRIDE" in content
Override(text) == \E j \in 1..Len(text) : text[j].kind = "VERDICT: OVERRIDE"

NoAscResult ==
    [method |-> "none", answer |-> "none", agents_used |-> 0,
     override |-> FALSE, review_final_answer |-> "none"]

IdleConsultation ==
    /\ asc_pc = "idle"
    /\ asc_selected = <<>>
    /\ asc_consultations = <<>>
    /\ asc_aggregated = "none"
    /\ asc_result = NoAscResult

\* the head of run_answer_space_consultation
InitConsultation ==
    /\ asc_pc = "analyze"
    /\ asc_selected = <<>>
    /\ asc_consultations = <<>>
    /\ asc_aggregated = "none"
    /\ asc_result = NoAscResult

\* phase 1: _analyze_answer_space
AnalyzeAnswerSpace ==
    /\ asc_pc = "analyze"
    /\ \E listed \in AnalysisTexts :
         asc_selected' = ParsedSpecialists(listed)
    /\ asc_pc' = "consult"
    /\ UNCHANGED <<asc_consultations, asc_aggregated, asc_result, consultationFrame>>

\* phase 2, one iteration: _consult_specialist with its two model calls; the
\* ValueError of other_answers.remove is caught nowhere and ends the run
ConsultSpecialist ==
    /\ asc_pc = "consult"
    /\ Len(asc_consultations) < Len(asc_selected)
    /\ \E initial \in ConsultTexts :
         LET initial_answer == asc_extract_answer(initial)
         IN  IF ~CanRemove(initial_answer)
             THEN /\ asc_pc' = "raised"
                  /\ UNCHANGED asc_consultations
             ELSE \E challenge \in ConsultTexts :
                    LET final_answer == asc_extract_answer(challenge)
                    IN  /\ asc_consultations' = Append(asc_consultations,
                              [initial_answer |-> initial_answer,
                               final_answer |-> final_answer,
                               changed_mind |-> initial_answer # final_answer,
                               deferred |-> Deferred(challenge)])
                        /\ UNCHANGED asc_pc
    /\ UNCHANGED <<asc_selected, asc_aggregated, asc_result, consultationFrame>>

\* phase 3: _aggregate_consultations
AggregateConsultations ==
    /\ asc_pc = "consult"
    /\ Len(asc_consultations) = Len(asc_selected)
    /\ \E text \in ConsultTexts :
         asc_aggregated' = asc_extract_answer(text)
    /\ asc_pc' = "review"
    /\ UNCHANGED <<asc_selected, asc_consultations, asc_result, consultationFrame>>

\* phase 4 and the return: _review_decision, then the answer is extracted
\* from the text of the review
ReviewDecision ==
    /\ asc_pc = "review"
    /\ \E text \in ConsultTexts :
         asc_result' = [method |-> "answer_space_consultation",
                        answer |-> asc_extract_answer(text),
                        agents_used |-> 1 + Len(asc_consultations) + 1 + 1,
                        override |-> Override(text),
                        review_final_answer |->
                            IF Override(text) THEN asc_extract_answer(text)
                            ELSE asc_aggregated]
    /\ asc_pc' = "done"
    /\ UNCHANGED <<asc_selected, asc_consultations, asc_aggregated, consultationFrame>>

NextConsultation ==
    \/ AnalyzeAnswerSpace
    \/ ConsultSpecialist
    \/ AggregateConsultations
    \/ ReviewDecision

IdleUtil == IdleJson /\ IdleMock /\ IdleNorm /\ IdleMajority /\ IdleQueue /\ IdleResume /\ IdleExperiments /\ IdleConsultation

IdleButJson == IdleMock /\ IdleNorm /\ IdleMajority /\ IdleQueue /\ IdleResume /\ IdleExperiments /\ IdleConsultation

IdleButMock == IdleJson /\ IdleNorm /\ IdleMajority /\ IdleQueue /\ IdleResume /\ IdleExperiments /\ IdleConsultation

IdleButNorm == IdleJson /\ IdleMock /\ IdleMajority /\ IdleQueue /\ IdleResume /\ IdleExperiments /\ IdleConsultation

IdleButMajority == IdleJson /\ IdleMock /\ IdleNorm /\ IdleQueue /\ IdleResume /\ IdleExperiments /\ IdleConsultation

IdleButQueue == IdleJson /\ IdleMock /\ IdleNorm /\ IdleMajority /\ IdleResume /\ IdleExperiments /\ IdleConsultation

IdleButResume == IdleJson /\ IdleMock /\ IdleNorm /\ IdleMajority /\ IdleQueue /\ IdleExperiments /\ IdleConsultation

IdleButExperiments == IdleJson /\ IdleMock /\ IdleNorm /\ IdleMajority /\ IdleQueue /\ IdleResume /\ IdleConsultation

IdleButConsultation == IdleJson /\ IdleMock /\ IdleNorm /\ IdleMajority /\ IdleQueue /\ IdleResume /\ IdleExperiments

IdleExt == IdleBatch /\ IdleReports /\ IdleCli /\ IdleUtil

vars == <<caseVars, debateVars, seqVars, extVars>>

Init == InitCase /\ IdleDebate /\ IdleSeq /\ IdleExt

Next ==
    \/ PlannerFirstCall
    \/ PlannerRetryCall
    \/ SpecialistFirstCall
    \/ SpecialistRetryCall
    \/ SpecialistsDone
    \/ AggregatorFirstCall
    \/ AggregatorRetryCall

Spec == Init /\ [][Next]_vars

DebateInit == IdleCase /\ InitDebate /\ IdleSeq /\ IdleExt

SpecDebate == DebateInit /\ [][NextDebate]_vars

SeqInit == IdleCase /\ IdleDebate /\ InitSeq /\ IdleExt

SpecSeq == SeqInit /\ [][NextSeq]_vars

PlanConfigs ==
    [max_retries : {1}, max_specialists : {MaxSelected}, top_k : PlanTopKValues,
     max_agents_total : {10}]

PlanInit == CaseStart(PlanConfigs, "planner") /\ IdleDebate /\ IdleSeq /\ IdleExt

NextPlan ==
    \/ PlannerFirstCallWide
    \/ PlannerRetryCall

SpecPlan == PlanInit /\ [][NextPlan]_vars

SpecialistConfigs ==
    [max_retries : {0, 1}, max_specialists : {MaxSelected}, top_k : {MaxSelected},
     max_agents_total : {10}]

\* run_specialists called with a non-empty list of specialty ids
SpecialistsInit ==
    /\ CaseStartWith(SpecialistConfigs, "specialists",
                     SeqUpTo(AllIds, MaxConsults) \ {<<>>}, {None})
    /\ IdleDebate /\ IdleSeq /\ IdleExt

NextSpecialists ==
    \/ SpecialistFirstCallWide
    \/ SpecialistRetryCallWide
    \/ SpecialistsDone

SpecSpecialists == SpecialistsInit /\ [][NextSpecialists]_vars

\* run_case called with a ground truth, under the default configuration
AnswerInit ==
    /\ CaseStartWith({DefaultConfig}, "planner", {<<>>}, CorrectAnswers)
    /\ IdleDebate /\ IdleSeq /\ IdleExt

SpecAnswer == AnswerInit /\ [][Next]_vars

BatchInit ==
    IdleCase /\ IdleDebate /\ IdleSeq /\ IdleReports /\ IdleCli /\ IdleUtil /\ InitBatch

\* a command is invoked: run and plan start at the planner, eval at the loop
\* of evaluate_on_subset
CliInit ==
    /\ cli_command \in Commands
    /\ cli_pc = "body"
    /\ exit_code = NoExit
    /\ cli_raised = None
    /\ IF cli_command = "eval"
       THEN /\ IdleCase
            /\ InitBatch
            /\ script = "medqa"
       ELSE /\ CaseStart({DefaultConfig}, "planner")
            /\ IdleBatch
    /\ IdleDebate /\ IdleSeq /\ IdleReports /\ IdleUtil

\* run: run_case
CliRun ==
    /\ cli_command = "run"
    /\ cli_pc = "body"
    /\ Next

\* plan: run_planner
CliPlan ==
    /\ cli_command = "plan"
    /\ cli_pc = "body"
    /\ (PlannerFirstCall \/ PlannerRetryCall)

\* eval: evaluate_on_subset
CliEval ==
    /\ cli_command = "eval"
    /\ cli_pc = "body"
    /\ NextBatch

NextCli ==
    \/ CliRun
    \/ CliPlan
    \/ CliEval
    \/ CliExit

SpecCli == CliInit /\ [][NextCli]_vars

SpecBatch == BatchInit /\ [][NextBatch]_vars

\* extract_json_from_llm_response on wrapped JSON objects
IdleCore == IdleCase /\ IdleDebate /\ IdleSeq /\ IdleBatch /\ IdleReports /\ IdleCli

JsonInit == IdleCore /\ IdleButJson /\ InitJson

SpecJson == JsonInit /\ [][NextJson]_vars

\* an agent function called twice on one MockLLMClient
IdleRest == IdleDebate /\ IdleSeq /\ IdleBatch /\ IdleReports /\ IdleCli

MockInit == IdleRest /\ IdleButMock /\ InitMock

SpecMock == MockInit /\ [][NextMock]_vars

\* normalize_answer on the answer texts
NormInit == IdleCore /\ IdleButNorm /\ InitNorm

SpecNorm == NormInit /\ [][NextNorm]_vars

\* run_independent_multi_agent_majority
MajorityInit == IdleCore /\ IdleButMajority /\ InitMajority

SpecMajority == MajorityInit /\ [][NextMajority]_vars

\* the experiment queue runner
QueueInit == IdleCore /\ IdleButQueue /\ InitQueue

SpecQueue == QueueInit /\ [][NextQueue]_vars

\* a batch script run, stopped and started again
ResumeInit ==
    IdleCase /\ IdleDebate /\ IdleSeq /\ IdleReports /\ IdleCli /\ IdleButResume
        /\ InitResume

SpecResume == ResumeInit /\ [][NextResume]_vars

\* the batch experiment runner
ExperimentsInit == IdleCore /\ IdleButExperiments /\ InitExperiments

SpecExperiments == ExperimentsInit /\ [][NextExperiments]_vars

ConsultationInit == IdleCore /\ IdleButConsultation /\ InitConsultation

SpecConsultation == ConsultationInit /\ [][NextConsultation]_vars

\* ================================================================== claims
RetryPcs == {"planner_retry", "specialist_retry", "aggregator_retry"}

PlannerReturned == planner_path \in {"first", "retry", "fallback"}

\* C1: every id in the selected_specialties of a PlannerResult returned by
\* run_planner (first parse, corrective retry or filter-and-backfill fallback)
\* is an id of the specialty catalog.
C1_SelectedInCatalog ==
    PlannerReturned => Range(planner_result.selected_specialties) \subseteq CatalogIds

C1_Witness ==
    /\ planner_path = "fallback"
    /\ Len(planner_result.selected_specialties) = 2

\* C2 as stated: with retries enabled, a malformed or semantically invalid
\* first response makes the agent (planner, specialist, aggregator) issue
\* exactly one second model call.
C2_Original ==
    (/\ pc \notin RetryPcs
     /\ config.max_retries > 0
     /\ agent.first \in {"no_json", "schema", "invalid_ids"})
    => agent.calls = 2

\* C2 amended: no agent makes a third call; with retries enabled a first
\* response that fails JSON parsing or schema validation gets exactly one
\* corrective call in a specialist and in the aggregator, in the planner only
\* a parsed first response naming invalid ids does; a planner response that
\* fails parsing or validation, and a response that is JSON but not an object,
\* get no corrective call.
C2_OneCorrectiveCall ==
    /\ agent.calls <= 2
    /\ (pc \notin RetryPcs /\ config.max_retries > 0) =>
         /\ (agent.name \in {"specialist", "aggregator"}
             /\ agent.first \in {"no_json", "schema"}) => agent.calls = 2
         /\ (agent.name = "planner" /\ agent.first = "invalid_ids") => agent.calls = 2
         /\ (agent.name = "planner" /\ agent.first \in {"no_json", "schema"})
                => agent.calls = 1
         /\ agent.first = "non_object" => agent.calls = 1

C2_Witness ==
    /\ pc = "returned"
    /\ config.max_retries = 2
    /\ agent.name = "aggregator"
    /\ agent.first = "schema"
    /\ agent.calls = 2

\* C3 as stated: run_planner raises over an invalid response only when
\* retries are disabled.
C3_Original ==
    (planner_path = "raised" /\ raised = "ValueError") => config.max_retries = 0

\* C3 amended: run_planner raises ValueError exactly when the first response
\* fails JSON parsing or schema validation (whatever max_retries is) or names
\* invalid ids while retries are disabled, and TypeError when the first
\* response is JSON but not an object; when retries are enabled and the first
\* response parses it returns a PlannerResult (first parse, retry or fallback)
\* unless the corrective call fails at transport level or returns JSON that is
\* not an object.
C3_PlannerFailure ==
    (agent.name = "planner" /\ pc # "planner_retry") =>
        /\ (planner_path = "raised" /\ raised = "ValueError") =>
               /\ agent.calls = 1
               /\ \/ agent.first \in {"no_json", "schema"}
                  \/ agent.first = "invalid_ids" /\ config.max_retries <= 0
        /\ agent.first \in {"no_json", "schema", "non_object"} => planner_path = "raised"
        /\ (agent.first = "invalid_ids" /\ config.max_retries <= 0) => planner_path = "raised"
        /\ (agent.first = "invalid_ids" /\ config.max_retries > 0
            /\ agent.last \notin {"transport", "non_object"})
               => planner_path \in {"retry", "fallback"}
        /\ agent.first = "ok" => planner_path = "first"

C3_Witness ==
    /\ planner_path = "raised"
    /\ config.max_retries > 0
    /\ agent.first = "schema"
    /\ raised = "ValueError"

\* the ids of the selected specialists whose consultation returned, in
\* selection order
OkIds ==
    LET n == Len(consult_ok)
        F[k \in 0..n] ==
            IF k = 0 THEN <<>>
            ELSE IF consult_ok[k] THEN Append(F[k - 1], selected_specialties[k])
                 ELSE F[k - 1]
    IN F[n]

SpecialistsRaised ==
    pc = "failed" /\ PlannerReturned /\ case.specialist_reports = <<>>

\* C4: run_specialists returns one report per selected specialist whose
\* consultation succeeded, in selection order, skips the failed ones, and
\* raises only if every selected specialist failed.
C4_PartialFailure ==
    /\ Len(consult_ok) = idx - 1
    /\ [k \in 1..Len(results) |-> results[k].specialty_id] = OkIds
    /\ pc \in {"aggregator", "aggregator_retry", "returned"} =>
          /\ Len(consult_ok) = Len(selected_specialties)
          /\ case.specialist_reports = results
          /\ results # <<>>
    /\ SpecialistsRaised =>
          /\ Len(consult_ok) = Len(selected_specialties)
          /\ \A k \in 1..Len(consult_ok) : ~consult_ok[k]

C4_Witness ==
    /\ pc = "aggregator"
    /\ consult_ok = <<FALSE, TRUE>>
    /\ Len(results) = 1

\* C5 as stated: a transport failure on any model call ends the case at once.
C5_Original == transport_seen # {} => pc = "failed"

\* C5 amended: a transport failure on a planner or aggregator call ends
\* run_case at once with a RuntimeError, and no agent repeats a call that
\* failed at transport level; a transport failure on a specialist call is
\* caught by run_specialists, which skips that specialist and goes on.
C5_TransportFailure ==
    /\ ("planner" \in transport_seen \/ "aggregator" \in transport_seen) =>
          pc = "failed" /\ raised = "RuntimeError"
    /\ agent.first = "transport" => agent.calls = 1
    /\ (agent.name = "specialist" /\ agent.last = "transport") =>
          /\ consult_ok # <<>>
          /\ ~consult_ok[Len(consult_ok)]
          /\ pc = "failed" => results = <<>>

C5_Witness ==
    /\ pc = "returned"
    /\ transport_seen = {"specialist"}

\* C6: a CaseTrace returned by run_case has one planner trace, one aggregator
\* trace and at least one specialist trace, exactly one per specialist whose
\* consultation succeeded.
C6_TraceShape ==
    pc = "returned" =>
        /\ trace.planner_trace = AgentTrace("planner", None)
        /\ trace.aggregator_trace = AgentTrace("aggregator", None)
        /\ Len(trace.specialist_traces) >= 1
        /\ trace.specialist_traces =
               [k \in 1..Len(OkIds) |-> AgentTrace("specialist", OkIds[k])]

C6_Witness ==
    /\ pc = "returned"
    /\ Len(trace.specialist_traces) = 2
    /\ consult_ok = <<TRUE, TRUE>>

\* C7: after a successful run_case, for any planner output and configuration,
\* 1 + len(specialist_traces) + 1 <= config.budgets.max_specialists + 2.
C7_SpecialistBudget ==
    pc = "returned" =>
        1 + Len(trace.specialist_traces) + 1 <= config.max_specialists + 2

C9_Original == debate_pc = "done" => Len(debate_history) = 2 * rounds + 2

\* C9 amended: run_debate(rounds=N) leaves exactly 2*N + 1 entries in
\* debate_history for N >= 1 (two per round and the consensus entry), and 3
\* entries for N < 1: the count is determined by rounds.
C9_HistoryLength ==
    debate_pc = "done" => Len(debate_history) = 2 * Max(rounds, 1) + 1

C9_Witness ==
    /\ debate_pc = "done"
    /\ rounds = 3
    /\ Len(debate_history) = 7

Agrees(k) == _check_agreement(debate_rounds[k].content)

\* C10 as stated: the exchange with a specialist ends at the first utterance
\* (generalist or specialist) that contains an agreement phrase: no utterance
\* follows one that contains an agreement phrase.
C10_Original ==
    \A k \in 1..Len(debate_rounds) : Agrees(k) => k = Len(debate_rounds)

\* C10 amended: the specialist's initial consultation is not checked for
\* agreement; after it the exchange ends at the first generalist response or
\* specialist rebuttal that contains an agreement phrase, and otherwise with
\* the generalist's response of round max_rounds (with the initial
\* consultation when max_rounds < 2); every model call adds one utterance, no
\* call follows the end, and no round number exceeds max(max_rounds, 1).
C10_DebateEnds ==
    LET n == Len(debate_rounds)
    IN /\ \A k \in 2..n : Agrees(k) => (k = n /\ seq_pc = "done")
       /\ \A k \in 1..n : debate_rounds[k].round <= Max(max_rounds, 1)
       /\ seq_pc # "raised" => seq_calls = n
       /\ seq_pc = "done" =>
            \/ n >= 2 /\ Agrees(n)
            \/ /\ n >= 2
               /\ debate_rounds[n].speaker = "generalist"
               /\ debate_rounds[n].round = max_rounds
            \/ n = 1 /\ max_rounds < 2

C10_Witness ==
    /\ seq_pc = "done"
    /\ max_rounds = 3
    /\ Len(debate_rounds) = 3
    /\ Agrees(3)
    /\ ~Agrees(1)

HasErrorEntry(m, k) ==
    \E j \in 1..Len(batch_results[m]) :
        /\ batch_results[m][j].question_idx = QuestionIdx(script, k)
        /\ "error" \in DOMAIN batch_results[m][j]

\* C12: in every batch loop each question whose processing raised has a
\* result entry with an "error" field, so the results hold exactly one entry
\* per attempted question.
C12_ErrorEntryPerQuestion ==
    /\ \A p \in batch_raised : HasErrorEntry(p[1], p[2])
    /\ \A m \in DOMAIN batch_results : Len(batch_results[m]) = batch_i

\* C18: during a batch run the partial results are written to disk every N
\* questions: once the N-th, 2N-th, ... question has been processed, the
\* checkpoint file holds the results of all questions processed so far.
C18_CheckpointEveryN ==
    (/\ CheckpointEvery(script) # NoInterval
     /\ batch_i > 0
     /\ batch_i % CheckpointEvery(script) = 0)
    => checkpoint = Saved(batch_results)

\* ---------------------------------------------------------------- planner
\* C13: every PlannerResult returned by run_planner has at least 1 and at
\* most config.planner.top_k (and never more than 5) selected specialty ids,
\* also when the result comes from the filter-and-backfill fallback.
C13_BoundedSelection ==
    PlannerReturned =>
        /\ Len(planner_result.selected_specialties) >= 1
        /\ Len(planner_result.selected_specialties) <= config.top_k
        /\ Len(planner_result.selected_specialties) <= MaxSelected

ValidOriginals(pr) ==
    SelectSeq(pr.selected_specialties, LAMBDA sid : sid \in CatalogIds)

\* positions of the scored entries that may be backfilled
Candidates(pr) ==
    {j \in 1..Len(pr.scored_catalog) :
        /\ pr.scored_catalog[j].specialty_id \in CatalogIds
        /\ pr.scored_catalog[j].specialty_id \notin Range(ValidOriginals(pr))}

\* b names the highest-relevance candidates, highest first
IsBackfill(pr, b) ==
    \E f \in [1..Len(b) -> Candidates(pr)] :
        /\ \A k, l \in 1..Len(b) : k # l => f[k] # f[l]
        /\ \A k \in 1..Len(b) : pr.scored_catalog[f[k]].specialty_id = b[k]
        /\ \A k, l \in 1..Len(b) :
               k < l => pr.scored_catalog[f[k]].relevance >= pr.scored_catalog[f[l]].relevance
        /\ \A c \in Candidates(pr) : \A k \in 1..Len(b) :
               c \notin {f[l] : l \in 1..Len(b)}
                   => pr.scored_catalog[c].relevance <= pr.scored_catalog[f[k]].relevance

\* C14: when the first response names invalid ids and the corrective retry
\* fails too, the returned selection is the originally selected valid ids
\* backfilled with the highest-relevance valid scored entries that were not
\* already selected, up to config.planner.top_k ids in total.
C14_FallbackSelection ==
    [][(pc = "planner_retry" /\ planner_path' = "fallback") =>
        LET valid == ValidOriginals(planner_result)
            out == planner_result'.selected_specialties
            keep == Min(Len(valid), config.top_k)
        IN  /\ SubSeq(out, 1, keep) = SubSeq(valid, 1, keep)
            /\ Len(out) = Min(config.top_k,
                              Len(valid) + Cardinality(Candidates(planner_result)))
            /\ IsBackfill(planner_result, SubSeq(out, keep + 1, Len(out)))]_vars

C14_Witness ==
    /\ planner_path = "fallback"
    /\ config.top_k = 1
    /\ Len(planner_result.scored_catalog) >= 2
    /\ planner_result.scored_catalog[1].relevance < planner_result.scored_catalog[2].relevance
    /\ planner_result.scored_catalog[1].specialty_id # planner_result.scored_catalog[2].specialty_id
    /\ planner_result.selected_specialties = <<planner_result.scored_catalog[2].specialty_id>>

\* ------------------------------------------------------------ specialists
\* C15: every SpecialistReport returned by run_specialist, by the first
\* attempt or by the corrective retry, has a differential of at most 3 items
\* whose probabilities sum to at most 1.01.
C15_ReportBounded ==
    \A k \in 1..Len(results) :
        /\ Len(results[k].differential) <= MaxDifferential
        /\ SumSeq(results[k].differential) <= ProbTolerance

C15_Witness ==
    /\ Len(results) = 1
    /\ agent.calls = 2
    /\ SumSeq(results[1].differential) = ProbTolerance

\* C16 as stated: a SpecialistReport is never mutated after it was parsed
\* from the model output; no field changes between parsing and its use by
\* the aggregator and the trace.
C16_Original ==
    /\ \A k \in DOMAIN parsed_reports : results[k] = parsed_reports[k]
    /\ pc = "aggregator" => case.specialist_reports = parsed_reports

\* C16: a returned SpecialistReport keeps the differential it was parsed
\* with, its specialty_id is overwritten with the id that was requested, and
\* nothing changes any more between run_specialist's return and its use.
C16_OnlyIdForced ==
    /\ Len(results) = Len(parsed_reports)
    /\ \A k \in DOMAIN parsed_reports :
           /\ results[k].differential = parsed_reports[k].differential
           /\ results[k].specialty_id = OkIds[k]
    /\ pc = "aggregator" => case.specialist_reports = results

C16_Witness ==
    /\ pc = "aggregator"
    /\ Len(parsed_reports) = 1
    /\ parsed_reports[1].specialty_id # results[1].specialty_id
    /\ case.specialist_reports = results

\* ------------------------------------------------------------- scheduling
C17_Order ==
    /\ pc \in {"planner", "planner_retry"} =>
           agent.name \in {None, "planner"} /\ consult_ok = <<>> /\ idx = 1
    /\ agent.name \in {"specialist", "aggregator"} => PlannerReturned
    /\ pc \in {"specialists", "specialist_retry"} =>
           Len(consult_ok) = idx - 1 /\ idx <= Len(selected_specialties) + 1
    /\ pc = "specialist_retry" => agent.name = "specialist" /\ idx <= Len(selected_specialties)
    /\ (agent.name = "aggregator" \/ pc \in {"aggregator", "aggregator_retry", "returned"}) =>
           Len(consult_ok) = Len(selected_specialties)

C17_Step ==
    /\ agent'.name = "planner" => agent.name \in {None, "planner"}
    /\ agent'.name = "specialist" => agent.name \in {"planner", "specialist"}
    /\ \/ agent' = agent
       \/ pc \in RetryPcs /\ agent'.name = agent.name /\ agent'.calls = agent.calls + 1
       \/ pc \notin RetryPcs /\ agent'.calls <= 1
    /\ \/ consult_ok' = consult_ok /\ idx' = idx
       \/ Len(consult_ok') = Len(consult_ok) + 1 /\ idx' = idx + 1
             /\ SubSeq(consult_ok', 1, Len(consult_ok)) = consult_ok
    /\ results' # results =>
           /\ Len(results') = Len(results) + 1
           /\ results'[Len(results')].specialty_id = selected_specialties[idx]

\* C17: run_case is strictly sequential: the planner's model calls are over
\* before a specialist call starts, the specialists are consulted one at a
\* time in the planner's selection order, the aggregator is called only
\* after the last consultation has finished, and every step makes at most
\* one model call.
C17_Sequential == []C17_Order /\ [][C17_Step]_vars

C17_Witness ==
    /\ pc = "returned"
    /\ agent.name = "aggregator"
    /\ Len(consult_ok) = 2
    /\ consult_ok[1] /\ consult_ok[2]
    /\ agent.calls = 2

\* -------------------------------------------------------------- evaluation
\* C19: for every trace run_case returns with a ground-truth correct_answer
\* supplied, is_correct equals (predicted_answer == correct_answer), where
\* predicted_answer is the final decision's final_answer; with no
\* correct_answer supplied (None, or the empty string that parse_medqa_item
\* puts in place of a missing answer) is_correct is None.
C19_IsCorrect ==
    pc = "returned" =>
        /\ trace.predicted_answer = trace.final_decision.final_answer
        /\ trace.correct_answer = case.correct_answer
        /\ IF case.correct_answer \in {None, ""}
           THEN trace.is_correct = None
           ELSE trace.is_correct = PyBool(trace.predicted_answer = case.correct_answer)

C19_Witness ==
    /\ pc = "returned"
    /\ case.correct_answer = "B"
    /\ trace.predicted_answer = "A"
    /\ trace.is_correct = "False"

\* ---------------------------------------------------------------------- CLI
\* a command did what it is for: run returned a trace and saved it, plan got
\* a PlannerResult, eval evaluated every question without an error
CommandSucceeded ==
    CASE cli_command = "run" -> pc = "returned" /\ cli_raised # "OSError"
      [] cli_command = "plan" -> pc = "specialists"
      [] cli_command = "eval" ->
            dataset_len > 0 /\ batch_i = dataset_len /\ batch_raised = {}
      [] OTHER -> FALSE

\* C20: each CLI command (run, plan, eval) exits with code 0 when it
\* succeeds and with code 1 when an exception is raised while it executes.
C20_ExitCodes ==
    cli_pc = "exited" =>
        /\ CommandSucceeded => exit_code = 0
        /\ cli_raised # None => exit_code = 1

\* C21: extract_json_from_llm_response of a fenced JSON object with preamble
\* and/or trailing text returns what json.loads returns for the embedded JSON.
C21_RoundTrip ==
    jx_pc = "done" => ~jx_raised /\ jx_out = json_loads(jx_raw)

\* ------------------------------------------------------------- mock client
\* C22: with a fixed mock response, calling run_planner, run_specialist or
\* run_aggregator twice with identical inputs produces identical parsed
\* results (or the same exception): nothing is carried over between calls.
C22_Deterministic ==
    (det_run = 2 /\ Finished) => Outcome = det_first

C22_Witness ==
    /\ det_run = 2
    /\ Finished
    /\ det_agent = "planner"
    /\ planner_path = "fallback"
    /\ mock_call_count = 4
    /\ det_first.planner_result = planner_result

\* ------------------------------------------------------------ answer letters
AnswerB == <<"A", "n", "s", "w", "e", "r", ":", " ", "B">>

LetterDotText(s) == Len(s) >= 3 /\ s[1] \in Letters /\ s[2] = "."

NormalizedLetters ==
    /\ LetterDotText(na_answer) => na_out = <<Upper(na_answer[1])>>
    /\ na_answer = AnswerB => na_out = <<"B">>
    /\ (Len(na_answer) = 1 /\ na_answer[1] \in Letters) => na_out = <<Upper(na_answer[1])>>

C24_TokenTotal ==
    maj_pc = "done" => maj_result.tokens_used = SumSeq(maj_calls)

\* ---------------------------------------------------------- majority voting
Votes(a) == Cardinality({k \in 1..Len(maj_agent_responses) : maj_agent_responses[k] = a})

\* C28: if at least two of the three agents give the same answer, that answer
\* is final and no further model call is made (4 calls in total); otherwise
\* exactly one synthesis call is made (5 in total) and the answer extracted
\* from it is final.
C28_MajorityOrSynthesis ==
    /\ Len(maj_calls) <= 5
    /\ maj_pc = "done" =>
          /\ Len(maj_agent_responses) = 3
          /\ maj_result.num_llm_calls = Len(maj_calls)
          /\ IF \E a \in Range(maj_agent_responses) : Votes(a) >= 2
             THEN /\ Votes(maj_result.answer) >= 2
                  /\ maj_result.decision_method = "majority"
                  /\ Len(maj_calls) = 4
             ELSE /\ maj_result.answer = _extract_answer(maj_synthesis_text)
                  /\ maj_result.decision_method = "synthesis"
                  /\ Len(maj_calls) = 5

C28_Witness ==
    /\ maj_pc = "done"
    /\ maj_agent_responses = <<"A", "B", "A">>
    /\ maj_result.answer = "A"
    /\ Len(maj_calls) = 4

\* ------------------------------------------------------- experiment queue
Taken == {rq_outcome[k].config : k \in 1..Len(rq_outcome)}

OutcomeOf(c) == (CHOOSE k \in 1..Len(rq_outcome) : rq_outcome[k].config = c)

\* C25: every config taken from the queue is removed from the queue directory
\* and placed in exactly one of completed/ or failed/ before the next config
\* is taken; it goes to completed/ exactly when it passed validation and its
\* experiment exited with return code 0.
C25_MovedOnce ==
    /\ rq_completed \cap rq_failed = {}
    /\ rq_completed \cup rq_failed = Taken
    /\ \A k, l \in 1..Len(rq_outcome) : rq_outcome[k].config = rq_outcome[l].config => k = l
    /\ \A c \in Taken :
          /\ c \notin Range(rq_queue)
          /\ c \in rq_completed <=> rq_outcome[OutcomeOf(c)].outcome = "returncode_0"
    /\ rq_current # NoConfig => rq_current \notin Taken /\ rq_current = Head(rq_queue)

C25_Witness ==
    /\ rq_pc = "check"
    /\ rq_completed = {2}
    /\ rq_failed = {1}
    /\ rq_queue = <<>>
    /\ rq_outcome[1].outcome = "returncode_1"

\* C26: without stop_when_empty the queue runner stops by itself only after
\* the queue has been empty, with no new config arriving, for idle_timeout
\* seconds; it never exits while a config is waiting, and after finishing an
\* experiment it waits the full idle_timeout with an empty queue.
C26_IdleTimeout ==
    (rq_pc = "stopped" /\ ~stop_when_empty) =>
        /\ rq_queue = <<>>
        /\ rq_empty_for >= idle_timeout

\* ---------------------------------------------------------------- resuming
\* C27: resuming a batch evaluation from a checkpoint processes exactly the
\* questions that were not processed before the checkpoint: none is
\* evaluated twice, none is skipped, also when earlier questions ended in an
\* error.
C27_ResumeExact ==
    (rs_run = 2 /\ batch_i = dataset_len) =>
        rs_evaluated = (rs_checkpoint_at + 1)..dataset_len

\* ------------------------------------------------------- batch experiments
\* the experiments are started in batch-file order, and with stop-on-error
\* none is started after one that failed
StartedInOrder ==
    /\ be_started = [k \in 1..Len(be_started) |-> k]
    /\ Len(be_started) <= Len(be_experiments)
    /\ ~continue_on_error =>
          \A k \in 1..Len(be_results) : be_results[k] # "success" => k = Len(be_started)

\* C29 as stated: with stop-on-error no experiment after the first failed one
\* is started; with the default every experiment is started, in batch-file
\* order, regardless of failures.
C29_Original ==
    /\ StartedInOrder
    /\ (be_pc \in {"done", "aborted"} /\ continue_on_error) =>
          Len(be_started) = Len(be_experiments)

\* C29 amended: a batch file that fails validation (no experiments, or one
\* that lacks script or config or names a missing file) is aborted before
\* any experiment is started; otherwise with stop-on-error no experiment
\* after the first failed one is started, and with the default every
\* experiment is started, in batch-file order, regardless of failures.
C29_StopOnError ==
    /\ StartedInOrder
    /\ ~validate_experiments(be_experiments) => be_started = <<>> /\ be_pc # "loop"
    /\ (be_pc = "done" /\ continue_on_error) => Len(be_started) = Len(be_experiments)
    /\ (be_pc = "done" /\ ~continue_on_error /\ Len(be_started) < Len(be_experiments)) =>
          be_results # <<>> /\ be_results[Len(be_results)] # "success"
    /\ be_pc = "aborted" => ~validate_experiments(be_experiments)

C29_Witness ==
    /\ be_pc = "done"
    /\ ~continue_on_error
    /\ Len(be_experiments) = 3
    /\ be_started = <<1, 2>>
    /\ be_results = <<"success", "failed">>

\* C30: no response text makes a baseline strategy raise: whatever the model
\* returns, also text without an answer letter, answer space consultation
\* goes through its remaining steps and returns a result
C30_NeverRaises == asc_pc # "raised"

====
